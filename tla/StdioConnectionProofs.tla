------------------------ MODULE StdioConnectionProofs ------------------------
(* Theorems about StdioConnection, for every set of calls and choice of their ids, any *)
(* number of slots, cancellations and faults, and queues of any length.                *)
EXTENDS StdioConnection, FiniteSetTheorems, SequenceTheorems, TLAPS

-----------------------------------------------------------------------------
(* The inductive invariant *)

InHands == {c \in Calls : pc[c] \in InHand}

\* An entry is found under its own id; an id has an entry or a tombstone, not both.
RouterInv ==
    /\ \A i \in Ids : pending[i] # NoCall => IdOf[pending[i]] = i /\ i \notin abandoned
    /\ \A c \in Calls : future[c] = "error" => failure
    /\ \A c \in leaked : pc[c] = "cancelled"

\* One call starts the child. A connection that failed while nobody closed it has lost its
\* reader, and close() leaves no entry behind: a frame read after the failure meets none.
LifeInv ==
    /\ \A c \in Calls : pc[c] = "start" => process = "starting"
    /\ \A c, d \in Calls : pc[c] = "start" /\ pc[d] = "start" => c = d
    /\ reading => process = "up"
    /\ failure /\ closing = "open" => process = "up" /\ ~reading
    /\ closing # "open" => failure /\ \A i \in Ids : pending[i] = NoCall

In(s, c) == \E n \in DOMAIN s : s[n] = c

Once(s) == \A m, n \in DOMAIN s : s[m] = s[n] /\ s[m] \in Calls => m = n

\* A request is in one place of its way to the server and back, once, and nowhere
\* before it was written.
PlaceInv ==
    /\ Once(toServer) /\ Once(outbox) /\ Once(toClient)
    /\ \A c \in Calls :
        /\ In(toServer, c) => line # c /\ task[c] = "none" /\ ~In(outbox, c) /\ ~In(toClient, c)
        /\ line = c => task[c] = "none" /\ ~In(outbox, c) /\ ~In(toClient, c)
        /\ task[c] # "none" => ~In(outbox, c) /\ ~In(toClient, c)
        /\ In(outbox, c) => ~In(toClient, c)
        /\ pc[c] \in {"idle", "start", "reserve", "lock"} \cup InHand =>
              ~In(toServer, c) /\ line # c /\ task[c] = "none" /\ ~In(outbox, c) /\ ~In(toClient, c)
    /\ server = "exited" => line = NoCall /\ outbox = <<>> /\ \A c \in Calls : task[c] = "none"

\* A request whose response may still be read, or whose drain may still fail.
Flying(c) ==
    \/ In(toClient, c) \/ In(outbox, c) \/ task[c] # "none" \/ line = c
    \/ In(toServer, c) /\ (server # "exited" \/ pc[c] = "drain")

Known(c) == pending[IdOf[c]] = c \/ IdOf[c] \in abandoned

Moving(c) == Flying(c) \/ pc[c] = "lock"

\* As long as the connection has not failed, an id names one request under way, and the
\* router knows it by its entry or by a tombstone.
WayInv ==
    ~failure =>
        /\ \A c \in Calls : Moving(c) => Known(c)
        /\ \A c, d \in Calls : Moving(c) /\ Moving(d) /\ IdOf[c] = IdOf[d] => c = d

IInv == TypeOK /\ SlotsAreAccountedFor /\ RouterInv /\ LifeInv /\ PlaceInv /\ WayInv /\ AnswersAreOwn

-----------------------------------------------------------------------------
(* Slots *)

\* Calls and ids are finitely many.
LEMMA Finite ==
  /\ IsFiniteSet(Calls) /\ IsFiniteSet(Ids)
  /\ \A S \in SUBSET Calls : IsFiniteSet(S) /\ Cardinality(S) \in Nat
  /\ \A S \in SUBSET Ids : IsFiniteSet(S) /\ Cardinality(S) \in Nat
  <1>1. IsFiniteSet(Calls)
    BY ConnectionAssumption
  <1>2. IsFiniteSet(Ids)
    <2> DEFINE f == [c \in Calls |-> IdOf[c]]
    <2>1. f \in Surjection(Calls, Ids)
      BY DEF Surjection, Ids
    <2> QED BY <1>1, <2>1, FS_Surjection
  <1> QED BY <1>1, <1>2, FS_Subset, FS_CardinalityType

\* The sets the slots are counted in.
LEMMA CountedSets ==
  ASSUME TypeOK
  PROVE  /\ PendingCalls \subseteq Calls /\ InHands \subseteq Calls
         /\ leaked \subseteq Calls /\ abandoned \subseteq Ids
  BY DEF TypeOK, PendingCalls, InHands

\* Taking an element out of a set, or putting a new one in.
LEMMA CountOut ==
  ASSUME NEW S, IsFiniteSet(S), NEW x \in S
  PROVE  Cardinality(S \ {x}) = Cardinality(S) - 1
  BY FS_RemoveElement

LEMMA CountIn ==
  ASSUME NEW S, IsFiniteSet(S), NEW x, x \notin S
  PROVE  Cardinality(S \cup {x}) = Cardinality(S) + 1
  BY FS_AddElement

\* An entry taken out of the router is one pending call less.
LEMMA EntryOut ==
  ASSUME TypeOK, RouterInv, NEW i \in Ids, pending[i] # NoCall,
         pending' = [pending EXCEPT ![i] = NoCall]
  PROVE  /\ pending[i] \in PendingCalls
         /\ PendingCalls' = PendingCalls \ {pending[i]}
  <1>1. pending[i] \in Calls
    BY DEF TypeOK
  <1>2. \A j \in Ids : pending'[j] = IF j = i THEN NoCall ELSE pending[j]
    BY DEF TypeOK
  <1>3. \A j \in Ids : pending[j] = pending[i] => j = i
    BY <1>1, ConnectionAssumption DEF RouterInv
  <1> QED BY <1>1, <1>2, <1>3, ConnectionAssumption DEF PendingCalls

\* An entry put under a free id is one pending call more.
LEMMA EntryIn ==
  ASSUME TypeOK, RouterInv, NEW c \in Calls, pending[IdOf[c]] = NoCall,
         pending' = [pending EXCEPT ![IdOf[c]] = c]
  PROVE  c \notin PendingCalls /\ PendingCalls' = PendingCalls \cup {c}
  <1>1. IdOf[c] \in Ids
    BY DEF Ids
  <1>2. \A j \in Ids : pending'[j] = IF j = IdOf[c] THEN c ELSE pending[j]
    BY <1>1 DEF TypeOK
  <1>3. \A j \in Ids : pending[j] # c
    BY ConnectionAssumption DEF RouterInv
  <1> QED BY <1>1, <1>2, <1>3, ConnectionAssumption DEF PendingCalls

\* Steps that touch neither the router nor the capacity.
NoSlotStep ==
    /\ UNCHANGED <<pending, abandoned, free, leaked>>
    /\ \A c \in Calls : pc'[c] \in InHand <=> pc[c] \in InHand

LEMMA NoSlotKeeps ==
  ASSUME IInv, NoSlotStep
  PROVE  SlotsAreAccountedFor'
  <1>1. PendingCalls' = PendingCalls
    BY DEF NoSlotStep, PendingCalls
  <1>2. {c \in Calls : pc[c] \in InHand}' = {c \in Calls : pc[c] \in InHand}
    BY DEF NoSlotStep
  <1> QED BY <1>1, <1>2 DEF IInv, SlotsAreAccountedFor, NoSlotStep

\* The sum, from what a step does to each of its terms.
LEMMA SlotsSum ==
  ASSUME IInv, abandoned' \subseteq Ids, leaked' \subseteq Calls, free' \in Nat,
         free' + Cardinality(PendingCalls') + Cardinality(abandoned') + Cardinality(InHands')
               + Cardinality(leaked')
         = free + Cardinality(PendingCalls) + Cardinality(abandoned) + Cardinality(InHands)
               + Cardinality(leaked)
  PROVE  SlotsAreAccountedFor'
  BY DEF IInv, SlotsAreAccountedFor, InHands

\* The call that takes a slot in hand, or leaves it, or neither.
LEMMA HandMoves ==
  ASSUME TypeOK, NEW c \in Calls, NEW place, Goto(c, place)
  PROVE  /\ pc[c] \in InHand /\ place \notin InHand => c \in InHands /\ InHands' = InHands \ {c}
         /\ pc[c] \notin InHand /\ place \in InHand => c \notin InHands /\ InHands' = InHands \cup {c}
         /\ pc[c] \notin InHand /\ place \notin InHand => InHands' = InHands
  <1>1. \A d \in Calls : pc'[d] = IF d = c THEN place ELSE pc[d]
    BY DEF Goto, TypeOK
  <1> QED BY <1>1 DEF InHands

LEMMA Numbers ==
  ASSUME TypeOK
  PROVE  /\ free \in Nat /\ Cardinality(PendingCalls) \in Nat /\ Cardinality(abandoned) \in Nat
         /\ Cardinality(InHands) \in Nat /\ Cardinality(leaked) \in Nat
  BY Finite, CountedSets DEF TypeOK

\* discard gives back the slot of the entry it removes, if there is one.
LEMMA DiscardSlots ==
  ASSUME IInv, NEW c \in Calls, Discard(c), UNCHANGED leaked, InHands' = InHands
  PROVE  SlotsAreAccountedFor'
  <1> USE DEF IInv
  <1>1. IdOf[c] \in Ids
    BY DEF Ids
  <1>2. CASE pending[IdOf[c]] = NoCall
    <2>1. pending' = pending
      BY <1>1, <1>2 DEF Discard, TypeOK
    <2>2. PendingCalls' = PendingCalls
      BY <2>1 DEF PendingCalls
    <2>3. free' = free /\ abandoned' = abandoned
      BY <1>2 DEF Discard
    <2> QED BY <2>2, <2>3, SlotsSum, CountedSets, Numbers
  <1>3. CASE pending[IdOf[c]] # NoCall
    <2>1. /\ pending[IdOf[c]] \in PendingCalls
          /\ PendingCalls' = PendingCalls \ {pending[IdOf[c]]}
      BY <1>1, <1>3, EntryOut DEF Discard
    <2>2. Cardinality(PendingCalls') = Cardinality(PendingCalls) - 1
      BY <2>1, CountOut, CountedSets, Finite
    <2>3. free' = free + 1 /\ abandoned' = abandoned
      BY <1>3 DEF Discard
    <2> QED BY <2>2, <2>3, SlotsSum, CountedSets, Numbers
  <1> QED BY <1>2, <1>3

\* fail gives back all slots but those in hand and those lost.
LEMMA FailSlots ==
  ASSUME IInv, Fail, UNCHANGED <<leaked, pc>>
  PROVE  SlotsAreAccountedFor'
  <1> USE DEF IInv
  <1>1. PendingCalls' = {} /\ abandoned' = {}
    BY ConnectionAssumption DEF Fail, PendingCalls
  <1>2. Cardinality(PendingCalls') = 0 /\ Cardinality(abandoned') = 0
    BY <1>1, FS_EmptySet
  <1>3. free' = free + Cardinality(PendingCalls) + Cardinality(abandoned)
    BY DEF Fail
  <1>4. InHands' = InHands
    BY DEF InHands
  <1> QED BY <1>1, <1>2, <1>3, <1>4, SlotsSum, CountedSets, Numbers

\* Every step keeps the account of the slots.
LEMMA SlotsStep ==
  ASSUME IInv, [Next]_vars
  PROVE  SlotsAreAccountedFor'
  <1> USE DEF IInv
  <1>1. CASE UNCHANGED vars
    BY <1>1, NoSlotKeeps DEF vars, sdk, history, NoSlotStep
  <1>2. ASSUME NEW c \in Calls, Call(c)
        PROVE  SlotsAreAccountedFor'
    BY <1>2, NoSlotKeeps DEF Call, Goto, NoSlotStep, InHand, TypeOK, history
  <1>3. ASSUME NEW c \in Calls, Started(c)
        PROVE  SlotsAreAccountedFor'
    BY <1>3, NoSlotKeeps DEF Started, Goto, NoSlotStep, InHand, TypeOK, history
  <1>4. ASSUME NEW c \in Calls, Reserve(c)
        PROVE  SlotsAreAccountedFor'
    <2>1. CASE failure /\ Goto(c, "failed") /\ UNCHANGED free
      BY <1>4, <2>1, NoSlotKeeps DEF Reserve, Goto, NoSlotStep, InHand, TypeOK, history
    <2>2. CASE free > 0 /\ free' = free - 1 /\ Goto(c, IF failure THEN "refused" ELSE "granted")
      <3>1. PendingCalls' = PendingCalls /\ abandoned' = abandoned /\ leaked' = leaked
        BY <1>4 DEF Reserve, PendingCalls, history
      <3>2. c \notin InHands /\ InHands' = InHands \cup {c}
        BY <1>4, <2>2, HandMoves DEF Reserve, InHand
      <3>3. Cardinality(InHands') = Cardinality(InHands) + 1
        BY <3>2, CountIn, CountedSets, Finite
      <3> QED BY <2>2, <3>1, <3>3, SlotsSum, CountedSets, Numbers
    <2> QED BY <1>4, <2>1, <2>2 DEF Reserve
  <1>5. ASSUME NEW c \in Calls, GiveBack(c) \/ Register(c)
        PROVE  SlotsAreAccountedFor'
    <2>1. abandoned' = abandoned /\ leaked' = leaked
      BY <1>5 DEF GiveBack, Register, history
    <2>2. CASE free' = free + 1 /\ Goto(c, "failed") /\ UNCHANGED <<pending, future>>
      <3>1. PendingCalls' = PendingCalls
        BY <2>2 DEF PendingCalls
      <3>2. c \in InHands /\ InHands' = InHands \ {c}
        BY <1>5, <2>2, HandMoves DEF GiveBack, Register, InHand
      <3>3. Cardinality(InHands') = Cardinality(InHands) - 1
        BY <3>2, CountOut, CountedSets, Finite
      <3> QED BY <2>1, <2>2, <3>1, <3>3, SlotsSum, CountedSets, Numbers
    <2>3. CASE /\ pending[IdOf[c]] = NoCall /\ pending' = [pending EXCEPT ![IdOf[c]] = c]
               /\ Goto(c, "lock") /\ UNCHANGED free
      <3>1. c \notin PendingCalls /\ PendingCalls' = PendingCalls \cup {c}
        BY <2>3, EntryIn
      <3>2. Cardinality(PendingCalls') = Cardinality(PendingCalls) + 1
        BY <3>1, CountIn, CountedSets, Finite
      <3>3. c \in InHands /\ InHands' = InHands \ {c}
        BY <1>5, <2>3, HandMoves DEF GiveBack, Register, InHand
      <3>4. Cardinality(InHands') = Cardinality(InHands) - 1
        BY <3>3, CountOut, CountedSets, Finite
      <3> QED BY <2>1, <2>3, <3>2, <3>4, SlotsSum, CountedSets, Numbers
    <2> QED BY <1>5, <2>2, <2>3 DEF GiveBack, Register
  <1>6. ASSUME NEW c \in Calls, Write(c)
        PROVE  SlotsAreAccountedFor'
    <2>1. InHands' = InHands /\ leaked' = leaked
      BY <1>6, HandMoves DEF Write, InHand, history
    <2>2. CASE Discard(c)
      BY <2>1, <2>2, DiscardSlots
    <2>3. CASE UNCHANGED <<pending, abandoned, free>>
      BY <2>1, <2>3, NoSlotKeeps DEF NoSlotStep, InHands
    <2> QED BY <1>6, <2>2, <2>3 DEF Write
  <1>7. ASSUME NEW c \in Calls, Drain(c)
        PROVE  SlotsAreAccountedFor'
    <2>1. InHands' = InHands /\ leaked' = leaked
      BY <1>7, HandMoves DEF Drain, InHand, history
    <2>2. CASE Discard(c)
      BY <2>1, <2>2, DiscardSlots
    <2>3. CASE UNCHANGED <<pending, abandoned, free>>
      BY <2>1, <2>3, NoSlotKeeps DEF NoSlotStep, InHands
    <2> QED BY <1>7, <2>2, <2>3 DEF Drain
  <1>8. ASSUME NEW c \in Calls, Return(c)
        PROVE  SlotsAreAccountedFor'
    <2>1. InHands' = InHands /\ leaked' = leaked
      BY <1>8, HandMoves DEF Return, InHand, history
    <2>2. CASE Discard(c)
      BY <2>1, <2>2, DiscardSlots
    <2>3. CASE UNCHANGED <<pending, abandoned, free>>
      BY <2>1, <2>3, NoSlotKeeps DEF NoSlotStep, InHands
    <2> QED BY <1>8, <2>2, <2>3 DEF Return
  <1>9. ASSUME NEW c \in Calls, Cancel(c)
        PROVE  SlotsAreAccountedFor'
    <2>1. CASE pc[c] \notin InHand /\ UNCHANGED <<pending, abandoned, free, leaked>>
      BY <1>9, <2>1, NoSlotKeeps DEF Cancel, Goto, NoSlotStep, InHand, TypeOK
    <2>2. CASE /\ pc[c] \in InHand /\ leaked' = leaked \cup {c}
               /\ UNCHANGED <<pending, abandoned, free>>
      <3>1. PendingCalls' = PendingCalls
        BY <2>2 DEF PendingCalls
      <3>2. c \notin leaked
        BY <2>2 DEF RouterInv, InHand
      <3>3. Cardinality(leaked') = Cardinality(leaked) + 1
        BY <2>2, <3>2, CountIn, CountedSets, Finite
      <3>4. c \in InHands /\ InHands' = InHands \ {c}
        BY <1>9, <2>2, HandMoves DEF Cancel, InHand
      <3>5. Cardinality(InHands') = Cardinality(InHands) - 1
        BY <3>4, CountOut, CountedSets, Finite
      <3>6. leaked' \subseteq Calls
        BY <2>2, CountedSets
      <3> QED BY <2>2, <3>1, <3>3, <3>5, <3>6, SlotsSum, CountedSets, Numbers
    <2>3. CASE pc[c] \in Registered /\ Abandon(c) /\ UNCHANGED leaked
      <3>1. IdOf[c] \in Ids
        BY DEF Ids
      <3>2. InHands' = InHands
        BY <1>9, <2>3, HandMoves DEF Cancel, InHand, Registered
      <3>3. CASE pending[IdOf[c]] = NoCall
        <4>1. pending' = pending
          BY <2>3, <3>1, <3>3 DEF Abandon, TypeOK
        <4>2. abandoned' = abandoned /\ free' = free
          BY <2>3, <3>3 DEF Abandon
        <4> QED BY <2>3, <3>2, <4>1, <4>2, NoSlotKeeps DEF NoSlotStep, InHands
      <3>4. CASE pending[IdOf[c]] # NoCall
        <4>1. /\ pending[IdOf[c]] \in PendingCalls
              /\ PendingCalls' = PendingCalls \ {pending[IdOf[c]]}
          BY <2>3, <3>1, <3>4, EntryOut DEF Abandon
        <4>2. Cardinality(PendingCalls') = Cardinality(PendingCalls) - 1
          BY <4>1, CountOut, CountedSets, Finite
        <4>3. IdOf[c] \notin abandoned /\ abandoned' = abandoned \cup {IdOf[c]} /\ free' = free
          BY <2>3, <3>1, <3>4 DEF Abandon, RouterInv
        <4>4. Cardinality(abandoned') = Cardinality(abandoned) + 1
          BY <4>3, CountIn, CountedSets, Finite
        <4>5. abandoned' \subseteq Ids
          BY <3>1, <4>3, CountedSets
        <4> QED BY <2>3, <3>2, <4>2, <4>3, <4>4, <4>5, SlotsSum, CountedSets, Numbers
      <3> QED BY <3>3, <3>4
    <2> QED BY <1>9, <2>1, <2>2, <2>3 DEF Cancel, history, Registered, InHand
  <1>10. CASE Read
    <2>1. pc' = pc /\ leaked' = leaked /\ InHands' = InHands
      BY <1>10 DEF Read, history, InHands
    <2>2. CASE Fail
      BY <2>1, <2>2, FailSlots
    <2>3. CASE ReadLate
      <3> DEFINE i == IdOf[Head(toClient)]
      <3>1. i \in abandoned /\ abandoned' = abandoned \ {i} /\ free' = free + 1 /\ pending' = pending
        BY <2>3 DEF ReadLate
      <3>2. Cardinality(abandoned') = Cardinality(abandoned) - 1
        BY <3>1, CountOut, CountedSets, Finite
      <3>3. PendingCalls' = PendingCalls
        BY <3>1 DEF PendingCalls
      <3>4. abandoned' \subseteq Ids
        BY <3>1, CountedSets
      <3> QED BY <2>1, <3>1, <3>2, <3>3, <3>4, SlotsSum, CountedSets, Numbers
    <2>4. CASE ReadResponse
      <3> DEFINE i == IdOf[Head(toClient)]
      <3>1. /\ pending[i] # NoCall /\ pending' = [pending EXCEPT ![i] = NoCall]
            /\ free' = free + 1 /\ abandoned' = abandoned
        BY <2>4 DEF ReadResponse
      <3>2. Head(toClient) \in Calls
        BY <2>4 DEF ReadResponse, TypeOK
      <3>3. i \in Ids
        BY <3>2 DEF Ids
      <3>4. pending[i] \in PendingCalls /\ PendingCalls' = PendingCalls \ {pending[i]}
        BY <3>1, <3>3, EntryOut
      <3>5. Cardinality(PendingCalls') = Cardinality(PendingCalls) - 1
        BY <3>4, CountOut, CountedSets, Finite
      <3> QED BY <2>1, <3>1, <3>5, SlotsSum, CountedSets, Numbers
    <2> QED BY <1>10, <2>2, <2>3, <2>4 DEF Read, ReadUnknown, ReadEof
  <1>11. CASE Close
    BY <1>11, FailSlots DEF Close, history
  <1>12. ASSUME UNCHANGED <<sdk, history>>
         PROVE  SlotsAreAccountedFor'
    BY <1>12, NoSlotKeeps DEF NoSlotStep, sdk, history
  <1>13. CASE \E c \in Calls : Serve(c)
    BY <1>12, <1>13 DEF Serve, Admit, Enqueue
  <1>14. CASE Shutdown
    BY <1>12, <1>14 DEF Shutdown, CloseStdin, StdinClosed, Escalate, CloseDone
  <1>15. CASE Loop
    BY <1>12, <1>15 DEF Loop, ReadLine, Dispatch, StopLoop, Exit
  <1>16. CASE WriteFrame \/ WriterFails \/ Crash
    BY <1>12, <1>16 DEF WriteFrame, WriterFails, Crash
  <1> QED
    BY <1>1, <1>2, <1>3, <1>4, <1>5, <1>6, <1>7, <1>8, <1>9, <1>10, <1>11, <1>13, <1>14, <1>15, <1>16
    DEF Next, Client

\* The capacity stays within its bounds.
LEMMA FreeStep ==
  ASSUME IInv, SlotsAreAccountedFor', abandoned' \subseteq Ids, leaked' \subseteq Calls,
         free' \in Int
  PROVE  free' \in 0 .. MaxPendingRequests
  <1>1. PendingCalls' \subseteq Calls /\ {c \in Calls : pc'[c] \in InHand} \subseteq Calls
    BY DEF PendingCalls
  <1>2. /\ Cardinality(PendingCalls') \in Nat /\ Cardinality(abandoned') \in Nat
        /\ Cardinality({c \in Calls : pc'[c] \in InHand}) \in Nat /\ Cardinality(leaked') \in Nat
    BY <1>1, Finite
  <1> QED BY <1>2, ConnectionAssumption DEF SlotsAreAccountedFor

-----------------------------------------------------------------------------
(* Types *)

\* TypeOK without the capacity.
SdkTypes ==
    /\ pc \in [Calls -> {"idle", "start", "reserve"} \cup InHand \cup Registered \cup Ended]
    /\ future \in [Calls -> {"none", "open", "value", "error"}]
    /\ answer \in [Calls -> Calls \cup {NoCall}]
    /\ pending \in [Ids -> Calls \cup {NoCall}]
    /\ abandoned \subseteq Ids /\ free \in Int
    /\ leaked \subseteq Calls /\ robbed \subseteq Calls /\ cancels \in 0 .. MaxCancels
    /\ process \in {"none", "starting", "up"} /\ writeLock \in Calls \cup {NoCall}
    /\ closing \in {"open", "locking", "flushing", "waiting", "terminated", "killed", "closed"}
    /\ failure \in BOOLEAN /\ reading \in BOOLEAN

HostTypes ==
    /\ server \in {"ready", "closing", "exited"} /\ line \in Calls \cup {NoCall}
    /\ toServer \in Seq(Calls)
    /\ toClient \in Seq(Calls \cup {NoCall}) /\ outbox \in Seq(Calls \cup {NoCall})
    /\ task \in [Calls -> {"none", "admit", "reply", "refuse"}]
    /\ faults \in 0 .. MaxFaults
    /\ stopping \in BOOLEAN /\ writing \in BOOLEAN

LEMMA IdKnown == \A c \in Calls : IdOf[c] \in Ids
  BY DEF Ids

LEMMA Types == TypeOK <=> SdkTypes /\ HostTypes /\ free \in 0 .. MaxPendingRequests
  <1> USE ConnectionAssumption
  <1>1. TypeOK => SdkTypes /\ HostTypes /\ free \in 0 .. MaxPendingRequests
    BY DEF TypeOK, SdkTypes, HostTypes
  <1>2. SdkTypes /\ HostTypes /\ free \in 0 .. MaxPendingRequests => TypeOK
    BY DEF TypeOK, SdkTypes, HostTypes
  <1> QED BY <1>1, <1>2

LEMMA FailTypes ==
  ASSUME SdkTypes, Fail
  PROVE  /\ future' \in [Calls -> {"none", "open", "value", "error"}] /\ free' \in Int
         /\ pending' \in [Ids -> Calls \cup {NoCall}] /\ abandoned' \subseteq Ids /\ failure' \in BOOLEAN
  <1>1. Cardinality(PendingCalls) \in Nat /\ Cardinality(abandoned) \in Nat
    BY Finite DEF PendingCalls, SdkTypes
  <1>2. failure' \in BOOLEAN
    BY Zenon DEF Fail
  <1> QED BY <1>1, <1>2 DEF Fail, SdkTypes

LEMMA DiscardTypes ==
  ASSUME SdkTypes, NEW c \in Calls, Discard(c)
  PROVE  /\ future' \in [Calls -> {"none", "open", "value", "error"}] /\ free' \in Int
         /\ answer' \in [Calls -> Calls \cup {NoCall}]
         /\ pending' \in [Ids -> Calls \cup {NoCall}] /\ abandoned' \subseteq Ids /\ failure' \in BOOLEAN
  BY IdKnown DEF Discard, SdkTypes

LEMMA SdkTypesStep ==
  ASSUME IInv, [Next]_vars
  PROVE  SdkTypes'
  <1> USE DEF IInv
  <1>0. SdkTypes /\ HostTypes
    BY Types
  <1>1. ASSUME UNCHANGED <<pc, future, answer, pending, abandoned, free, leaked, robbed, cancels,
                           process, writeLock, closing, failure, reading>>
        PROVE  SdkTypes'
    BY <1>0, <1>1 DEF SdkTypes
  <1>2. ASSUME NEW c \in Calls, Call(c) \/ Started(c) \/ Reserve(c) \/ GiveBack(c)
        PROVE  SdkTypes'
    <2>1. CASE Call(c)
      BY <1>0, <2>1 DEF SdkTypes, Call, Goto, Ended, history
    <2>2. CASE Started(c)
      <3>1. reading' \in BOOLEAN
        BY <1>0, <2>2 DEF SdkTypes, Started
      <3> QED BY <1>0, <2>2, <3>1 DEF SdkTypes, Started, Goto, Ended, history
    <2>3. CASE Reserve(c) \/ GiveBack(c)
      BY <1>0, <2>3 DEF SdkTypes, Reserve, GiveBack, Goto, InHand, Ended, child, history
    <2> QED BY <1>2, <2>1, <2>2, <2>3
  <1>3. ASSUME NEW c \in Calls, Register(c)
        PROVE  SdkTypes'
    BY <1>0, <1>3, IdKnown DEF SdkTypes, Register, Goto, Ended, Registered, child, history
  <1>4. ASSUME NEW c \in Calls, Write(c) \/ Drain(c) \/ Return(c)
        PROVE  SdkTypes'
    <2>1. /\ future' \in [Calls -> {"none", "open", "value", "error"}] /\ free' \in Int
          /\ answer' \in [Calls -> Calls \cup {NoCall}]
          /\ pending' \in [Ids -> Calls \cup {NoCall}] /\ abandoned' \subseteq Ids /\ failure' \in BOOLEAN
      <3>1. CASE Discard(c)
        BY <1>0, <3>1, DiscardTypes
      <3>2. CASE UNCHANGED <<future, answer, pending, abandoned, free, failure>>
        BY <1>0, <3>2 DEF SdkTypes
      <3> QED BY <1>4, <3>1, <3>2 DEF Write, Drain, Return
    <2>2. /\ pc' \in [Calls -> {"idle", "start", "reserve"} \cup InHand \cup Registered \cup Ended]
          /\ writeLock' \in Calls \cup {NoCall}
      BY <1>0, <1>4 DEF SdkTypes, Write, Drain, Return, Goto, Registered, Ended, child
    <2>3. UNCHANGED <<leaked, robbed, cancels, process, closing, reading>>
      BY <1>4 DEF Write, Drain, Return, child, history
    <2> QED BY <1>0, <2>1, <2>2, <2>3 DEF SdkTypes
  <1>5. ASSUME NEW c \in Calls, Cancel(c)
        PROVE  SdkTypes'
    <2>1. /\ pending' \in [Ids -> Calls \cup {NoCall}] /\ abandoned' \subseteq Ids /\ free' \in Int
          /\ leaked' \subseteq Calls /\ robbed' \subseteq Calls
      BY <1>0, <1>5, IdKnown DEF SdkTypes, Cancel, Abandon, history
    <2>2. /\ pc' \in [Calls -> {"idle", "start", "reserve"} \cup InHand \cup Registered \cup Ended]
          /\ writeLock' \in Calls \cup {NoCall} /\ process' \in {"none", "starting", "up"}
          /\ cancels' \in 0 .. MaxCancels
      BY <1>0, <1>5, ConnectionAssumption DEF SdkTypes, Cancel, Goto, Ended
    <2>3. UNCHANGED <<future, answer, failure, reading, closing>>
      BY <1>5 DEF Cancel
    <2> QED BY <1>0, <2>1, <2>2, <2>3 DEF SdkTypes
  <1>6. CASE Read
    <2>0. UNCHANGED <<pc, process, writeLock, closing, cancels, leaked, robbed>>
      BY <1>6 DEF Read, history
    <2>1. CASE Fail /\ reading' = FALSE /\ UNCHANGED answer
      <3>1. reading' \in BOOLEAN
        BY <2>1, Zenon
      <3> QED BY <1>0, <2>0, <2>1, <3>1, FailTypes DEF SdkTypes
    <2>2. CASE ReadLate
      BY <1>0, <2>0, <2>2 DEF SdkTypes, ReadLate
    <2>3. CASE ReadResponse
      <3>1. Head(toClient) \in Calls
        BY <1>0, <2>3 DEF ReadResponse, HostTypes
      <3> QED BY <1>0, <2>0, <2>3, <3>1, IdKnown DEF SdkTypes, ReadResponse
    <2> QED BY <1>6, <2>1, <2>2, <2>3 DEF Read, ReadUnknown, ReadEof
  <1>7. CASE Close
    BY <1>0, <1>7, FailTypes DEF Close, SdkTypes, history
  <1>8. CASE Shutdown
    BY <1>0, <1>8 DEF SdkTypes, Shutdown, CloseStdin, StdinClosed, Escalate, CloseDone, sdk, history
  <1>9. CASE \/ UNCHANGED vars \/ \E c \in Calls : Serve(c)
             \/ Loop \/ WriteFrame \/ WriterFails \/ Crash
    BY <1>1, <1>9 DEF Serve, Admit, Enqueue, Loop, ReadLine, Dispatch, StopLoop, Exit, WriteFrame,
                      WriterFails, Crash, vars, sdk, child, history
  <1> QED BY <1>2, <1>3, <1>4, <1>5, <1>6, <1>7, <1>8, <1>9 DEF Next, Client

LEMMA HostTypesStep ==
  ASSUME IInv, [Next]_vars
  PROVE  HostTypes'
  <1>0. SdkTypes /\ HostTypes
    BY Types DEF IInv
  <1>1. CASE UNCHANGED <<wire, host, faults>>
    BY <1>0, <1>1 DEF HostTypes, wire, host
  <1>2. ASSUME NEW c \in Calls, Call(c) \/ Started(c) \/ Reserve(c) \/ GiveBack(c) \/ Register(c)
                                 \/ Drain(c) \/ Return(c) \/ Cancel(c)
        PROVE  UNCHANGED <<wire, host, faults>>
    BY <1>2 DEF Call, Started, Reserve, GiveBack, Register, Drain, Return, Cancel
  <1>3. ASSUME NEW c \in Calls, Write(c)
        PROVE  HostTypes'
    BY <1>0, <1>3 DEF HostTypes, Write, host
  <1>4. CASE Read
    <2>1. toClient' \in Seq(Calls \cup {NoCall})
      <3>1. toClient # <<>> => Tail(toClient) \in Seq(Calls \cup {NoCall})
        BY <1>0, HeadTailProperties DEF HostTypes
      <3>2. (toClient # <<>> /\ toClient' = Tail(toClient)) \/ toClient' = toClient
        BY <1>4 DEF Read, ReadUnknown, ReadLate, ReadResponse, ReadEof
      <3> QED BY <1>0, <3>1, <3>2 DEF HostTypes
    <2>2. UNCHANGED <<toServer, host, faults>>
      BY <1>4 DEF Read
    <2> QED BY <1>0, <2>1, <2>2 DEF HostTypes, host
  <1>5. ASSUME Gone
        PROVE  /\ server' \in {"ready", "closing", "exited"} /\ line' \in Calls \cup {NoCall}
               /\ outbox' \in Seq(Calls \cup {NoCall})
               /\ task' \in [Calls -> {"none", "admit", "reply", "refuse"}]
               /\ stopping' \in BOOLEAN /\ writing' \in BOOLEAN
    <2>1. stopping' \in BOOLEAN /\ writing' \in BOOLEAN
      BY <1>5, Zenon DEF Gone
    <2> QED BY <1>5, <2>1 DEF Gone
  <1>6. CASE Escalate \/ Exit \/ Crash
    <2>1. CASE Gone
      <3>1. UNCHANGED wire /\ faults' \in 0 .. MaxFaults
        BY <1>0, <1>6, ConnectionAssumption DEF HostTypes, Escalate, Exit, Crash
      <3> QED BY <1>0, <1>5, <2>1, <3>1 DEF HostTypes, wire
    <2> QED BY <1>1, <1>6, <2>1 DEF Escalate, Exit, Crash
  <1>7. CASE Close \/ CloseStdin \/ StdinClosed \/ CloseDone
    BY <1>1, <1>7 DEF Close, CloseStdin, StdinClosed, CloseDone
  <1>8. ASSUME NEW c \in Calls, Admit(c)
        PROVE  HostTypes'
    BY <1>0, <1>8, ConnectionAssumption DEF HostTypes, Admit, wire
  <1>9. ASSUME NEW c \in Calls, Enqueue(c)
        PROVE  HostTypes'
    <2>1. stopping' \in BOOLEAN
      BY <1>0, <1>9, Zenon DEF HostTypes, Enqueue
    <2>2. outbox' \in Seq(Calls \cup {NoCall})
      <3>1. \A x \in Calls \cup {NoCall} : Append(outbox, x) \in Seq(Calls \cup {NoCall})
        BY <1>0, AppendProperties DEF HostTypes
      <3> QED BY <1>0, <1>9, <3>1 DEF HostTypes, Enqueue
    <2>3. task' \in [Calls -> {"none", "admit", "reply", "refuse"}]
      BY <1>0, <1>9 DEF HostTypes, Enqueue
    <2>4. UNCHANGED <<toServer, toClient, server, line, writing, faults>>
      BY <1>9 DEF Enqueue, wire
    <2> QED BY <1>0, <2>1, <2>2, <2>3, <2>4 DEF HostTypes
  <1>10. CASE ReadLine \/ Dispatch \/ WriteFrame
    <2>1. CASE ReadLine
      <3>1. Head(toServer) \in Calls /\ Tail(toServer) \in Seq(Calls)
        BY <1>0, <2>1, HeadTailProperties DEF HostTypes, ReadLine
      <3> QED BY <1>0, <2>1, <3>1 DEF HostTypes, ReadLine
    <2>2. CASE Dispatch
      BY <1>0, <2>2 DEF HostTypes, Dispatch, wire
    <2>3. CASE WriteFrame
      <3>1. Head(outbox) \in Calls \cup {NoCall} /\ Tail(outbox) \in Seq(Calls \cup {NoCall})
        BY <1>0, <2>3, HeadTailProperties DEF HostTypes, WriteFrame
      <3>2. Append(toClient, Head(outbox)) \in Seq(Calls \cup {NoCall})
        BY <1>0, <3>1, AppendProperties DEF HostTypes
      <3> QED BY <1>0, <2>3, <3>1, <3>2 DEF HostTypes, WriteFrame
    <2> QED BY <1>10, <2>1, <2>2, <2>3
  <1>11. CASE StopLoop \/ WriterFails
    <2>1. stopping' \in BOOLEAN /\ writing' \in BOOLEAN
      BY <1>0, <1>11, Zenon DEF HostTypes, StopLoop, WriterFails
    <2> QED BY <1>0, <1>11, <2>1, ConnectionAssumption DEF HostTypes, StopLoop, WriterFails, wire
  <1>12. CASE UNCHANGED vars
    BY <1>1, <1>12 DEF vars
  <1> QED
    BY <1>1, <1>2, <1>3, <1>4, <1>6, <1>7, <1>8, <1>9, <1>10, <1>11, <1>12
    DEF Next, Client, Serve, Shutdown, Loop

LEMMA TypeStep ==
  ASSUME IInv, [Next]_vars
  PROVE  TypeOK'
  <1>1. SdkTypes' /\ HostTypes' /\ SlotsAreAccountedFor'
    BY SdkTypesStep, HostTypesStep, SlotsStep
  <1>2. (free \in 0 .. MaxPendingRequests)'
    BY <1>1, FreeStep DEF SdkTypes
  <1> QED BY <1>1, <1>2, Types, PTL

-----------------------------------------------------------------------------
(* The router and the life of the connection *)

LEMMA RouterStep ==
  ASSUME IInv, [Next]_vars
  PROVE  RouterInv'
  <1> USE DEF IInv
  <1>1. ASSUME UNCHANGED <<pending, future, failure>>, abandoned' \subseteq abandoned
        PROVE  /\ \A i \in Ids : pending'[i] # NoCall => IdOf[pending'[i]] = i /\ i \notin abandoned'
               /\ \A c \in Calls : future'[c] = "error" => failure'
    BY <1>1 DEF RouterInv
  <1>2. ASSUME NEW c \in Calls, Discard(c)
        PROVE  /\ \A i \in Ids : pending'[i] # NoCall => IdOf[pending'[i]] = i /\ i \notin abandoned'
               /\ \A d \in Calls : future'[d] = "error" => failure'
    BY <1>2 DEF RouterInv, Discard, TypeOK
  <1>3. ASSUME Fail
        PROVE  /\ \A i \in Ids : pending'[i] # NoCall => IdOf[pending'[i]] = i /\ i \notin abandoned'
               /\ \A d \in Calls : future'[d] = "error" => failure'
    BY <1>3 DEF Fail
  <1>4. ASSUME NEW c \in Calls, Cancel(c)
        PROVE  /\ \A i \in Ids : pending'[i] # NoCall => IdOf[pending'[i]] = i /\ i \notin abandoned'
               /\ \A d \in Calls : future'[d] = "error" => failure'
    <2>1. CASE Abandon(c)
      BY <1>4, <2>1 DEF RouterInv, Abandon, TypeOK, Cancel
    <2> QED BY <1>1, <1>4, <2>1 DEF Cancel
  <1>5. ASSUME NEW c \in Calls, Register(c)
        PROVE  /\ \A i \in Ids : pending'[i] # NoCall => IdOf[pending'[i]] = i /\ i \notin abandoned'
               /\ \A d \in Calls : future'[d] = "error" => failure'
    BY <1>5 DEF RouterInv, Register, TypeOK
  <1>6. ASSUME ReadResponse
        PROVE  /\ \A i \in Ids : pending'[i] # NoCall => IdOf[pending'[i]] = i /\ i \notin abandoned'
               /\ \A d \in Calls : future'[d] = "error" => failure'
    BY <1>6 DEF RouterInv, ReadResponse, TypeOK
  <1>7. /\ \A i \in Ids : pending'[i] # NoCall => IdOf[pending'[i]] = i /\ i \notin abandoned'
        /\ \A d \in Calls : future'[d] = "error" => failure'
    <2>1. ASSUME NEW c \in Calls, Call(c) \/ Client(c) \/ Serve(c)
          PROVE  \/ UNCHANGED <<pending, future, failure, abandoned>> \/ Discard(c) \/ Register(c)
      BY <2>1 DEF Call, Client, Serve, Started, Reserve, GiveBack, Write, Drain, Return, Admit, Enqueue,
                  sdk
    <2>2. ASSUME Read
          PROVE  \/ UNCHANGED <<pending, future, failure>> /\ abandoned' \subseteq abandoned
                 \/ Fail \/ ReadResponse
      BY <2>2 DEF Read, ReadUnknown, ReadLate, ReadEof
    <2>3. ASSUME UNCHANGED vars \/ Shutdown \/ Loop \/ WriteFrame \/ WriterFails \/ Crash
          PROVE  UNCHANGED <<pending, future, failure, abandoned>>
      BY <2>3 DEF Shutdown, CloseStdin, StdinClosed, Escalate, CloseDone, Loop, ReadLine, Dispatch,
                  StopLoop, Exit, WriteFrame, WriterFails, Crash, vars, sdk
    <2> QED BY <1>1, <1>2, <1>3, <1>4, <1>5, <1>6, <2>1, <2>2, <2>3 DEF Next, Close, RouterInv
  <1>8. \A c \in leaked' : pc'[c] = "cancelled"
    <2>1. ASSUME NEW c \in Calls, Call(c) \/ Client(c)
          PROVE  \A d \in leaked' : pc'[d] = "cancelled"
      BY <2>1 DEF RouterInv, Call, Client, Started, Reserve, GiveBack, Register, Write, Drain, Return,
                  Goto, TypeOK, history
    <2>2. ASSUME NEW c \in Calls, Cancel(c)
          PROVE  \A d \in leaked' : pc'[d] = "cancelled"
      BY <2>2 DEF RouterInv, Cancel, Goto, TypeOK, history
    <2>3. ASSUME UNCHANGED <<pc, leaked>>
          PROVE  \A d \in leaked' : pc'[d] = "cancelled"
      BY <2>3 DEF RouterInv
    <2>4. CASE \/ UNCHANGED vars \/ Read \/ Close \/ Shutdown \/ \E c \in Calls : Serve(c)
               \/ Loop \/ WriteFrame \/ WriterFails \/ Crash
      BY <2>3, <2>4 DEF Read, Close, Shutdown, CloseStdin, StdinClosed, Escalate, CloseDone, Serve,
                   Admit, Enqueue, Loop, ReadLine, Dispatch, StopLoop, Exit, WriteFrame, WriterFails,
                   Crash, vars, sdk, history
    <2> QED BY <2>1, <2>2, <2>4 DEF Next
  <1> QED BY <1>7, <1>8 DEF RouterInv

LEMMA LifeStep ==
  ASSUME IInv, [Next]_vars
  PROVE  LifeInv'
  <1> USE DEF IInv
  <1>1. ASSUME NEW c \in Calls, Call(c)
        PROVE  LifeInv'
    BY <1>1 DEF LifeInv, Call, Goto, TypeOK
  <1>2. ASSUME NEW c \in Calls, Started(c)
        PROVE  LifeInv'
    <2>1. /\ process = "starting" /\ ~reading /\ ~(failure /\ closing = "open")
          /\ \A d \in Calls : pc[d] = "start" => d = c
          /\ UNCHANGED <<failure, closing, pending>>
      BY <1>2 DEF LifeInv, Started
    <2>2. \A d \in Calls : pc'[d] # "start"
      BY <1>2, <2>1 DEF Started, Goto, TypeOK
    <2>3. CASE process' = "up"
      BY <2>1, <2>2, <2>3 DEF LifeInv
    <2>4. CASE process' = "none" /\ UNCHANGED reading
      BY <2>1, <2>2, <2>4 DEF LifeInv
    <2> QED BY <1>2, <2>3, <2>4 DEF Started
  <1>3. ASSUME NEW c \in Calls, NEW place, place # "start", Goto(c, place),
               UNCHANGED <<process, reading, closing, failure>>,
               closing # "open" => \A i \in Ids : pending'[i] = NoCall
        PROVE  LifeInv'
    BY <1>3 DEF LifeInv, Goto, TypeOK
  <1>4. ASSUME NEW c \in Calls, Reserve(c) \/ GiveBack(c) \/ Register(c)
        PROVE  LifeInv'
    <2>1. closing # "open" => \A i \in Ids : pending'[i] = NoCall
      BY <1>4 DEF LifeInv, Reserve, GiveBack, Register
    <2> QED BY <1>3, <1>4, <2>1 DEF Reserve, GiveBack, Register, child
  <1>5. ASSUME NEW c \in Calls, Write(c) \/ Drain(c) \/ Return(c)
        PROVE  LifeInv'
    <2>1. closing # "open" => \A i \in Ids : pending'[i] = NoCall
      BY <1>5 DEF LifeInv, Write, Drain, Return, Discard, TypeOK
    <2>2. UNCHANGED <<process, reading, closing, failure>>
      BY <1>5 DEF Write, Drain, Return, Discard, child
    <2> QED BY <1>3, <1>5, <2>1, <2>2 DEF Write, Drain, Return
  <1>6. ASSUME NEW c \in Calls, Cancel(c)
        PROVE  LifeInv'
    <2>1. closing # "open" => \A i \in Ids : pending'[i] = NoCall
      BY <1>6 DEF LifeInv, Cancel, Abandon, TypeOK
    <2>2. UNCHANGED <<reading, closing, failure>> /\ Goto(c, "cancelled")
      BY <1>6 DEF Cancel
    <2>3. CASE pc[c] = "start" /\ process' = "none"
      BY <2>1, <2>2, <2>3 DEF LifeInv, Goto, TypeOK
    <2>4. CASE UNCHANGED process
      BY <1>3, <2>1, <2>2, <2>4
    <2> QED BY <1>6, <2>3, <2>4 DEF Cancel
  <1>7. CASE Read
    <2>0. UNCHANGED <<pc, process, closing>>
      BY <1>7 DEF Read
    <2>1. CASE Fail /\ reading /\ reading' = FALSE
      BY <2>0, <2>1 DEF LifeInv, Fail
    <2>2. CASE ReadLate
      BY <2>0, <2>2 DEF LifeInv, ReadLate
    <2>3. CASE ReadResponse
      BY <2>0, <2>3 DEF LifeInv, ReadResponse, TypeOK
    <2> QED BY <1>7, <2>1, <2>2, <2>3 DEF Read, ReadUnknown, ReadEof
  <1>8. CASE Close
    BY <1>8 DEF LifeInv, Close, Fail
  <1>9. CASE Shutdown
    BY <1>9 DEF LifeInv, Shutdown, CloseStdin, StdinClosed, Escalate, CloseDone, sdk
  <1>10. CASE \/ UNCHANGED vars \/ \E c \in Calls : Serve(c)
              \/ Loop \/ WriteFrame \/ WriterFails \/ Crash
    <2>1. UNCHANGED <<pc, process, reading, closing, failure, pending>>
      BY <1>10 DEF Serve, Admit, Enqueue, Loop, ReadLine, Dispatch, StopLoop, Exit, WriteFrame,
                   WriterFails, Crash, vars, sdk, child
    <2> QED BY <2>1 DEF LifeInv
  <1> QED BY <1>1, <1>2, <1>4, <1>5, <1>6, <1>7, <1>8, <1>9, <1>10 DEF Next, Client

-----------------------------------------------------------------------------
(* The way of a request *)

\* What a queue holds after a frame is put in or taken out.
LEMMA PutIn ==
  ASSUME NEW S, NEW s \in Seq(S), NEW x \in S
  PROVE  /\ \A c : In(Append(s, x), c) <=> In(s, c) \/ c = x
         /\ Once(s) /\ (x \in Calls => ~In(s, x)) => Once(Append(s, x))
  <1>1. /\ DOMAIN s = 1 .. Len(s) /\ DOMAIN Append(s, x) = 1 .. (Len(s) + 1) /\ Len(s) \in Nat
        /\ \A n \in 1 .. Len(s) : Append(s, x)[n] = s[n]
        /\ Append(s, x)[Len(s) + 1] = x
    OBVIOUS
  <1>2. \A n \in 1 .. (Len(s) + 1) : n \in 1 .. Len(s) \/ n = Len(s) + 1
    BY <1>1
  <1>3. ASSUME NEW c PROVE In(Append(s, x), c) <=> In(s, c) \/ c = x
    BY <1>1, <1>2 DEF In
  <1>4. ASSUME Once(s), x \in Calls => ~In(s, x) PROVE Once(Append(s, x))
    BY <1>1, <1>2, <1>4 DEF In, Once
  <1> QED BY <1>3, <1>4

LEMMA TakeOut ==
  ASSUME NEW S, NEW s \in Seq(S), s # <<>>
  PROVE  /\ Head(s) \in S /\ Tail(s) \in Seq(S) /\ In(s, Head(s))
         /\ \A c : In(s, c) <=> In(Tail(s), c) \/ c = Head(s)
         /\ Once(s) => Once(Tail(s)) /\ (Head(s) \in Calls => ~In(Tail(s), Head(s)))
  <1>1. /\ DOMAIN s = 1 .. Len(s) /\ Len(s) \in Nat \ {0} /\ Head(s) = s[1]
        /\ DOMAIN Tail(s) = 1 .. (Len(s) - 1)
        /\ \A n \in 1 .. (Len(s) - 1) : Tail(s)[n] = s[n + 1]
        /\ Head(s) \in S /\ Tail(s) \in Seq(S)
    OBVIOUS
  <1>2. \A n \in 1 .. Len(s) : n = 1 \/ (n - 1 \in 1 .. (Len(s) - 1) /\ (n - 1) + 1 = n)
    BY <1>1
  <1>3. \A n \in 1 .. (Len(s) - 1) : n + 1 \in 1 .. Len(s) /\ n + 1 # 1
    BY <1>1
  <1>4. ASSUME NEW c PROVE In(s, c) <=> In(Tail(s), c) \/ c = Head(s)
    <2>1. In(s, c) => In(Tail(s), c) \/ c = Head(s)
      <3> SUFFICES ASSUME NEW n \in 1 .. Len(s), s[n] = c, n # 1 PROVE In(Tail(s), c)
        BY <1>1 DEF In
      <3>1. n - 1 \in 1 .. (Len(s) - 1) /\ Tail(s)[n - 1] = c
        BY <1>1, <1>2
      <3> QED BY <1>1, <3>1 DEF In
    <2>2. In(Tail(s), c) => In(s, c)
      BY <1>1, <1>3 DEF In
    <2>3. In(s, Head(s))
      BY <1>1 DEF In
    <2> QED BY <2>1, <2>2, <2>3
  <1>5. ASSUME Once(s) PROVE Once(Tail(s))
    <2>1. \A m, n \in 1 .. (Len(s) - 1) : m + 1 = n + 1 => m = n
      BY <1>1
    <2> QED BY <1>1, <1>3, <1>5, <2>1 DEF Once
  <1>6. ASSUME Once(s), Head(s) \in Calls PROVE ~In(Tail(s), Head(s))
    BY <1>1, <1>3, <1>6 DEF Once, In
  <1> QED BY <1>1, <1>4, <1>5, <1>6

LEMMA EmptyQueue == /\ Once(<<>>) /\ \A c : ~In(<<>>, c)
  BY DEF Once, In

Early == {"idle", "start", "reserve", "lock"} \cup InHand

\* A step that moves no frame and takes no call back before its write.
LEMMA PlaceKeeps ==
  ASSUME IInv, UNCHANGED <<wire, line, task, outbox>>,
         server' = "exited" => server = "exited",
         \A c \in Calls : pc'[c] \in Early => pc[c] \in Early
  PROVE  PlaceInv'
  BY DEF IInv, PlaceInv, Early, wire, In, Once

\* The child is gone: its line, its tasks and its outbox are.
LEMMA PlaceGone ==
  ASSUME IInv, Gone, UNCHANGED <<wire, pc>>
  PROVE  PlaceInv'
  <1>1. /\ \A c \in Calls : task'[c] = "none" /\ line' # c /\ ~In(outbox', c)
        /\ line' = NoCall /\ outbox' = <<>> /\ Once(outbox')
    BY EmptyQueue, ConnectionAssumption DEF Gone
  <1>2. toServer' = toServer /\ toClient' = toClient /\ pc' = pc
    BY DEF wire
  <1> QED BY <1>1, <1>2 DEF IInv, PlaceInv

LEMMA PlaceWrite ==
  ASSUME IInv, NEW c \in Calls, pc[c] = "lock", Goto(c, "drain"), toServer' = Append(toServer, c),
         UNCHANGED <<toClient, host>>
  PROVE  PlaceInv'
  <1> USE DEF IInv
  <1>1. /\ ~In(toServer, c) /\ line # c /\ task[c] = "none" /\ ~In(outbox, c) /\ ~In(toClient, c)
    BY DEF PlaceInv
  <1>2. Once(toServer') /\ \A d \in Calls : In(toServer', d) <=> In(toServer, d) \/ d = c
    BY <1>1, PutIn DEF PlaceInv, TypeOK
  <1>3. \A d \in Calls : pc'[d] = IF d = c THEN "drain" ELSE pc[d]
    BY DEF Goto, TypeOK
  <1>4. UNCHANGED <<toClient, line, task, outbox, server>>
    BY DEF host
  <1>5. c # NoCall
    BY ConnectionAssumption
  <1> QED BY <1>1, <1>2, <1>3, <1>4, <1>5 DEF PlaceInv, InHand

LEMMA PlaceRead ==
  ASSUME IInv, toClient # <<>>, toClient' = Tail(toClient), UNCHANGED <<pc, toServer, host>>
  PROVE  PlaceInv'
  <1> USE DEF IInv
  <1>1. Once(toClient') /\ \A d \in Calls : In(toClient', d) => In(toClient, d)
    BY TakeOut DEF PlaceInv, TypeOK
  <1>2. UNCHANGED <<toServer, pc, line, task, outbox, server>>
    BY DEF host
  <1> QED BY <1>1, <1>2 DEF PlaceInv

LEMMA PlaceReadLine ==
  ASSUME IInv, ReadLine
  PROVE  PlaceInv'
  <1> USE DEF IInv
  <1>1. /\ Once(toServer') /\ line' \in Calls /\ In(toServer, line') /\ ~In(toServer', line')
        /\ \A d \in Calls : In(toServer', d) => In(toServer, d)
    BY TakeOut DEF PlaceInv, TypeOK, ReadLine
  <1>2. UNCHANGED <<toClient, pc, task, outbox, server>> /\ server = "ready"
    BY DEF ReadLine, sdk
  <1> QED BY <1>1, <1>2 DEF PlaceInv

LEMMA PlaceDispatch ==
  ASSUME IInv, Dispatch
  PROVE  PlaceInv'
  <1> USE DEF IInv
  <1>1. line \in Calls /\ \A d \in Calls : task'[d] = IF d = line THEN "admit" ELSE task[d]
    BY DEF Dispatch, TypeOK
  <1>2. UNCHANGED <<toServer, toClient, pc, outbox, server>> /\ server = "ready" /\ line' = NoCall
    BY DEF Dispatch, sdk, wire
  <1> QED BY <1>1, <1>2, ConnectionAssumption DEF PlaceInv

LEMMA PlaceAdmit ==
  ASSUME IInv, NEW c \in Calls, Admit(c)
  PROVE  PlaceInv'
  <1> USE DEF IInv
  <1>1. /\ task[c] = "admit" /\ server # "exited"
        /\ \A d \in Calls : d # c => task'[d] = task[d]
    BY DEF Admit, TypeOK
  <1>2. UNCHANGED <<toServer, toClient, pc, outbox, line, server>>
    BY DEF Admit, sdk, wire
  <1> QED BY <1>1, <1>2 DEF PlaceInv

LEMMA PlaceEnqueue ==
  ASSUME IInv, NEW c \in Calls, Enqueue(c)
  PROVE  PlaceInv'
  <1> USE DEF IInv
  <1>1. /\ task[c] # "none" /\ server # "exited"
        /\ \A d \in Calls : task'[d] = IF d = c THEN "none" ELSE task[d]
    BY DEF Enqueue, TypeOK
  <1>2. UNCHANGED <<toServer, toClient, pc, line, server>>
    BY DEF Enqueue, sdk, wire
  <1>3. ~In(outbox, c) /\ ~In(toClient, c) /\ ~In(toServer, c) /\ line # c /\ pc[c] \notin Early
    BY <1>1 DEF PlaceInv, Early
  <1>4. Once(outbox') /\ \A d \in Calls : In(outbox', d) => In(outbox, d) \/ d = c
    <2>1. \A x \in {c, NoCall} : /\ Once(Append(outbox, x))
                                 /\ \A d : In(Append(outbox, x), d) <=> In(outbox, d) \/ d = x
      BY <1>3, PutIn, ConnectionAssumption DEF PlaceInv, TypeOK
    <2>2. outbox' = outbox \/ \E x \in {c, NoCall} : outbox' = Append(outbox, x)
      BY DEF Enqueue
    <2> QED BY <2>1, <2>2, ConnectionAssumption DEF PlaceInv
  <1> QED BY <1>1, <1>2, <1>3, <1>4 DEF PlaceInv, Early

LEMMA PlaceWriteFrame ==
  ASSUME IInv, WriteFrame
  PROVE  PlaceInv'
  <1> USE DEF IInv
  <1> DEFINE x == Head(outbox)
  <1>1. /\ Once(outbox') /\ x \in Calls \cup {NoCall} /\ In(outbox, x)
        /\ \A d \in Calls : In(outbox, d) <=> In(outbox', d) \/ d = x
        /\ x \in Calls => ~In(outbox', x)
    BY TakeOut DEF PlaceInv, TypeOK, WriteFrame
  <1>2. UNCHANGED <<toServer, pc, line, task, server>> /\ server # "exited"
    BY DEF WriteFrame, sdk
  <1>3. x \in Calls => ~In(toClient, x)
    BY <1>1 DEF PlaceInv
  <1>4. Once(toClient') /\ \A d \in Calls : In(toClient', d) <=> In(toClient, d) \/ d = x
    BY <1>1, <1>3, PutIn DEF PlaceInv, TypeOK, WriteFrame
  <1> HIDE DEF x
  <1> QED BY <1>1, <1>2, <1>3, <1>4 DEF PlaceInv

LEMMA PlaceStep ==
  ASSUME IInv, [Next]_vars
  PROVE  PlaceInv'
  <1> USE DEF IInv
  <1>1. ASSUME NEW c \in Calls, NEW place, Goto(c, place), pc[c] \in Early \/ place \notin Early,
               UNCHANGED <<wire, host>>
        PROVE  PlaceInv'
    <2>1. \A d \in Calls : pc'[d] = IF d = c THEN place ELSE pc[d]
      BY <1>1 DEF Goto, TypeOK
    <2> QED BY <1>1, <2>1, PlaceKeeps DEF host
  <1>2. ASSUME NEW c \in Calls, Call(c) \/ Started(c) \/ Reserve(c) \/ GiveBack(c) \/ Register(c)
                                 \/ Drain(c) \/ Return(c) \/ Cancel(c)
        PROVE  PlaceInv'
    <2>1. UNCHANGED <<wire, host>>
      BY <1>2 DEF Call, Started, Reserve, GiveBack, Register, Drain, Return, Cancel
    <2>2. \E place : Goto(c, place) /\ (pc[c] \in Early \/ place \notin Early)
      BY <1>2 DEF Call, Started, Reserve, GiveBack, Register, Drain, Return, Cancel, Early, InHand
    <2> QED BY <1>1, <2>1, <2>2
  <1>3. ASSUME NEW c \in Calls, Write(c)
        PROVE  PlaceInv'
    <2>1. CASE toServer' = Append(toServer, c) /\ Goto(c, "drain")
      BY <1>3, <2>1, PlaceWrite DEF Write
    <2>2. CASE UNCHANGED toServer /\ Goto(c, "failed")
      BY <1>1, <1>3, <2>2 DEF Write, wire, Early
    <2> QED BY <1>3, <2>1, <2>2 DEF Write
  <1>4. ASSUME UNCHANGED <<pc, wire, line, task, outbox>>, server' = "exited" => server = "exited"
        PROVE  PlaceInv'
    BY <1>4, PlaceKeeps
  <1>5. CASE Read
    <2>1. CASE toClient # <<>> /\ toClient' = Tail(toClient)
      BY <1>5, <2>1, PlaceRead DEF Read
    <2>2. CASE UNCHANGED toClient
      BY <1>4, <1>5, <2>2 DEF Read, wire, host
    <2> QED BY <1>5, <2>1, <2>2 DEF Read, ReadUnknown, ReadLate, ReadResponse, ReadEof
  <1>6. CASE Close \/ CloseStdin \/ StdinClosed \/ CloseDone \/ UNCHANGED vars
    BY <1>4, <1>6 DEF Close, CloseStdin, StdinClosed, CloseDone, vars, sdk, host
  <1>7. CASE WriterFails \/ StopLoop
    BY <1>4, <1>7 DEF WriterFails, StopLoop, sdk
  <1>8. CASE Escalate \/ Exit \/ Crash
    <2>1. CASE Gone
      BY <1>8, <2>1, PlaceGone DEF Escalate, Exit, Crash, sdk
    <2>2. CASE UNCHANGED host
      BY <1>4, <1>8, <2>2 DEF Escalate, Exit, Crash, sdk, host
    <2> QED BY <1>8, <2>1, <2>2 DEF Escalate, Exit, Crash
  <1> QED
    BY <1>2, <1>3, <1>5, <1>6, <1>7, <1>8, PlaceReadLine, PlaceDispatch, PlaceAdmit, PlaceEnqueue,
       PlaceWriteFrame
    DEF Next, Client, Serve, Shutdown, Loop

-----------------------------------------------------------------------------
(* Who is behind an id *)

\* No call starts to move and the router keeps knowing those that still do.
LEMMA WayKeeps ==
  ASSUME IInv, ~failure' => ~failure,
         \A c \in Calls : ~failure /\ Moving(c)' => Moving(c),
         \A c \in Calls : ~failure /\ Moving(c) /\ Known(c) /\ Moving(c)' => Known(c)'
  PROVE  WayInv'
  BY DEF IInv, WayInv

\* As before, for steps that leave the router alone.
LEMMA WayStays ==
  ASSUME IInv, UNCHANGED <<pending, abandoned, failure>>,
         \A c \in Calls : Moving(c)' => Moving(c)
  PROVE  WayInv'
  <1>1. \A c \in Calls : Known(c) => Known(c)'
    BY DEF Known
  <1> QED BY <1>1, WayKeeps

\* A frame that has been written is with the child, on its way back or lost with it.
LEMMA OnePlace ==
  ASSUME IInv, NEW c \in Calls
  PROVE  /\ In(toClient, c) => /\ ~In(outbox, c) /\ task[c] = "none" /\ line # c
                               /\ ~In(toServer, c) /\ pc[c] # "lock"
         /\ pc[c] = "lock" => ~Flying(c)
         /\ In(toServer, c) => ~In(outbox, c) /\ task[c] = "none" /\ line # c /\ ~In(toClient, c)
  BY DEF IInv, PlaceInv, Flying

LEMMA WayRegister ==
  ASSUME IInv, NEW c \in Calls, Register(c)
  PROVE  WayInv'
  <1> USE DEF IInv
  <1>0. UNCHANGED <<wire, server, line, task, outbox, abandoned, failure>>
    BY DEF Register, host
  <1>1. CASE Goto(c, "failed") /\ UNCHANGED pending
    <2>1. \A d \in Calls : pc'[d] \in {"lock", "drain"} => pc'[d] = pc[d]
      BY <1>1 DEF Goto, TypeOK
    <2>2. \A d \in Calls : Moving(d)' => Moving(d)
      BY <1>0, <2>1 DEF Moving, Flying, In, wire
    <2> QED BY <1>0, <1>1, <2>2, WayStays
  <1>2. CASE /\ pending[IdOf[c]] = NoCall /\ IdOf[c] \notin abandoned
             /\ pending' = [pending EXCEPT ![IdOf[c]] = c] /\ Goto(c, "lock")
    <2> SUFFICES ASSUME ~failure PROVE WayInv'
      BY <1>0 DEF WayInv
    <2>1. \A d \in Calls : pc'[d] \in {"lock", "drain"} /\ d # c => pc'[d] = pc[d]
      BY <1>2 DEF Goto, TypeOK
    <2>2. \A d \in Calls : d # c /\ Moving(d)' => Moving(d)
      BY <1>0, <2>1 DEF Moving, Flying, In, wire
    <2>3. \A d \in Calls : Moving(d) => IdOf[d] # IdOf[c]
      BY <1>2, ConnectionAssumption DEF WayInv, Known
    <2>4. \A i \in Ids : pending'[i] = IF i = IdOf[c] THEN c ELSE pending[i]
      BY <1>2 DEF TypeOK
    <2>5. \A d \in Calls : Moving(d)' => Known(d)'
      BY <1>0, <2>2, <2>3, <2>4, IdKnown DEF WayInv, Known
    <2> QED BY <2>2, <2>3, <2>5 DEF WayInv
  <1> QED BY <1>1, <1>2 DEF Register

\* discard by the one call under way with the id, which then is not any more.
LEMMA WayDiscard ==
  ASSUME IInv, NEW c \in Calls, Discard(c), failure \/ Moving(c), ~Moving(c)',
         \A d \in Calls : Moving(d)' => Moving(d)
  PROVE  WayInv'
  <1> USE DEF IInv
  <1>1. UNCHANGED <<abandoned, failure>>
    BY DEF Discard
  <1>2. \A i \in Ids : pending'[i] = IF i = IdOf[c] THEN NoCall ELSE pending[i]
    BY DEF Discard, TypeOK
  <1>3. ASSUME NEW d \in Calls, ~failure, Moving(d), Known(d), Moving(d)'
        PROVE  Known(d)'
    <2>1. IdOf[d] # IdOf[c]
      BY <1>3 DEF WayInv
    <2> QED BY <1>1, <1>2, <1>3, <2>1, IdKnown DEF Known
  <1> QED BY <1>1, <1>3, WayKeeps

LEMMA WayWrite ==
  ASSUME IInv, NEW c \in Calls, Write(c)
  PROVE  WayInv'
  <1> USE DEF IInv
  <1>0. UNCHANGED <<toClient, server, line, task, outbox>> /\ pc[c] = "lock"
    BY DEF Write, host
  <1>1. CASE Discard(c) /\ Goto(c, "failed") /\ UNCHANGED toServer
    <2>1. \A d \in Calls : pc'[d] = IF d = c THEN "failed" ELSE pc[d]
      BY <1>1 DEF Goto, TypeOK
    <2>2. \A d \in Calls : Moving(d)' => Moving(d)
      BY <1>0, <1>1, <2>1 DEF Moving, Flying, In
    <2>3. Moving(c) /\ ~Flying(c)
      BY <1>0, OnePlace DEF Moving
    <2>4. ~Moving(c)'
      BY <1>0, <1>1, <2>1, <2>3 DEF Moving, Flying, In
    <2> QED BY <1>1, <2>2, <2>3, <2>4, WayDiscard
  <1>2. CASE /\ Goto(c, "drain") /\ toServer' = Append(toServer, c)
             /\ UNCHANGED <<pending, abandoned, failure>>
    <2>1. \A d \in Calls : pc'[d] = IF d = c THEN "drain" ELSE pc[d]
      BY <1>2 DEF Goto, TypeOK
    <2>2. \A d \in Calls : In(toServer', d) <=> In(toServer, d) \/ d = c
      BY <1>2, PutIn DEF TypeOK
    <2>3. \A d \in Calls : Moving(d)' => Moving(d)
      BY <1>0, <2>1, <2>2 DEF Moving, Flying
    <2> QED BY <1>2, <2>3, WayStays
  <1> QED BY <1>1, <1>2 DEF Write

LEMMA WayDrain ==
  ASSUME IInv, NEW c \in Calls, Drain(c)
  PROVE  WayInv'
  <1> USE DEF IInv
  <1>0. UNCHANGED <<wire, server, line, task, outbox>> /\ pc[c] = "drain"
    BY DEF Drain, host
  <1>1. \A d \in Calls : pc'[d] \in {"lock", "drain"} => pc'[d] = pc[d] /\ d # c
    BY DEF Drain, Goto, TypeOK
  <1>2. \A d \in Calls : Moving(d)' => Moving(d)
    BY <1>0, <1>1 DEF Moving, Flying, In, wire
  <1>3. CASE Discard(c) /\ server = "exited" /\ In(toServer, c)
    <2>1. Moving(c)
      BY <1>0, <1>3 DEF Moving, Flying
    <2>2. ~In(outbox, c) /\ task[c] = "none" /\ line # c /\ ~In(toClient, c)
      BY <1>3, OnePlace
    <2>3. ~Moving(c)'
      BY <1>0, <1>1, <1>3, <2>2 DEF Moving, Flying, In, wire
    <2> QED BY <1>2, <1>3, <2>1, <2>3, WayDiscard
  <1>4. CASE UNCHANGED <<pending, abandoned, failure>>
    BY <1>2, <1>4, WayStays
  <1> QED BY <1>3, <1>4 DEF Drain, In

LEMMA WayCancel ==
  ASSUME IInv, NEW c \in Calls, Cancel(c)
  PROVE  WayInv'
  <1> USE DEF IInv
  <1>0. UNCHANGED <<wire, server, line, task, outbox, failure>>
    BY DEF Cancel, host
  <1>1. \A d \in Calls : pc'[d] \in {"lock", "drain"} => pc'[d] = pc[d]
    BY DEF Cancel, Goto, TypeOK
  <1>2. \A d \in Calls : Moving(d)' => Moving(d)
    BY <1>0, <1>1 DEF Moving, Flying, In, wire
  <1>3. CASE Abandon(c)
    <2>1. \A i \in Ids : pending'[i] = IF i = IdOf[c] THEN NoCall ELSE pending[i]
      BY <1>3 DEF Abandon, TypeOK
    <2>2. /\ abandoned \subseteq abandoned'
          /\ pending[IdOf[c]] # NoCall => IdOf[c] \in abandoned'
      BY <1>3 DEF Abandon
    <2>3. \A d \in Calls : Known(d) => Known(d)'
      BY <2>1, <2>2, IdKnown, ConnectionAssumption DEF Known
    <2> QED BY <1>0, <1>2, <2>3, WayKeeps
  <1>4. CASE UNCHANGED <<pending, abandoned>>
    BY <1>0, <1>2, <1>4, WayStays
  <1> QED BY <1>3, <1>4 DEF Cancel

LEMMA WayRead ==
  ASSUME IInv, Read
  PROVE  WayInv'
  <1> USE DEF IInv
  <1>1. CASE Fail
    BY <1>1 DEF Fail, WayInv
  <1>2. CASE ReadLate \/ ReadResponse
    <2>0. PICK c : c = Head(toClient)
      OBVIOUS
    <2>1. toClient # <<>> /\ toClient' = Tail(toClient) /\ c # NoCall /\ UNCHANGED failure
      BY <1>2, <2>0 DEF ReadLate, ReadResponse
    <2>2. /\ c \in Calls /\ In(toClient, c) /\ ~In(toClient', c)
          /\ \A d \in Calls : In(toClient', d) => In(toClient, d)
      BY <2>0, <2>1, TakeOut DEF PlaceInv, TypeOK
    <2>3. \A i \in Ids : i # IdOf[c] => pending'[i] = pending[i] /\ (i \in abandoned => i \in abandoned')
      BY <1>2, <2>0, <2>2, IdKnown DEF ReadLate, ReadResponse, TypeOK
    <2>4. UNCHANGED <<toServer, server, line, task, outbox, pc>>
      BY DEF Read, host
    <2>5. \A d \in Calls : Moving(d)' => Moving(d)
      BY <2>2, <2>4 DEF Moving, Flying, In
    <2>6. Moving(c) /\ ~Moving(c)'
      BY <2>2, <2>4, OnePlace DEF Moving, Flying, In
    <2>7. ASSUME NEW d \in Calls, ~failure, Moving(d), Known(d), Moving(d)'
          PROVE  Known(d)'
      <3>1. IdOf[d] # IdOf[c]
        BY <2>2, <2>6, <2>7 DEF WayInv
      <3> QED BY <2>3, <2>7, <3>1, IdKnown DEF Known
    <2> QED BY <2>1, <2>5, <2>7, WayKeeps
  <1> QED BY <1>1, <1>2 DEF Read, ReadUnknown, ReadEof

\* The child's own steps hand a frame on; its end only lets frames go.
LEMMA WayServer ==
  ASSUME IInv, \/ \E c \in Calls : Serve(c)
               \/ Loop \/ WriteFrame \/ WriterFails \/ Crash \/ Shutdown
  PROVE  WayInv'
  <1> USE DEF IInv
  <1>0. UNCHANGED <<pending, abandoned, failure, pc>>
    BY DEF Serve, Admit, Enqueue, Loop, ReadLine, Dispatch, StopLoop, Exit, WriteFrame, WriterFails,
           Crash, Shutdown, CloseStdin, StdinClosed, Escalate, CloseDone, sdk
  <1> SUFFICES \A d \in Calls : Moving(d)' => Moving(d)
    BY <1>0, WayStays
  <1>1. ASSUME NEW c \in Calls, Admit(c)
        PROVE  \A d \in Calls : Moving(d)' => Moving(d)
    <2>1. task[c] # "none" /\ \A d \in Calls : d # c => task'[d] = task[d]
      BY <1>1 DEF Admit, TypeOK
    <2>2. UNCHANGED <<toServer, toClient, outbox, line, server>>
      BY <1>1 DEF Admit, wire
    <2> QED BY <1>0, <2>1, <2>2 DEF Moving, Flying, In
  <1>2. ASSUME NEW c \in Calls, Enqueue(c)
        PROVE  \A d \in Calls : Moving(d)' => Moving(d)
    <2>1. task[c] # "none" /\ \A d \in Calls : task'[d] = IF d = c THEN "none" ELSE task[d]
      BY <1>2 DEF Enqueue, TypeOK
    <2>2. UNCHANGED <<toServer, toClient, line, server>>
      BY <1>2 DEF Enqueue, wire
    <2>3. \A d \in Calls : In(outbox', d) => In(outbox, d) \/ d = c
      <3>1. \A x \in {c, NoCall} : \A d : In(Append(outbox, x), d) <=> In(outbox, d) \/ d = x
        BY PutIn DEF TypeOK
      <3>2. outbox' = outbox \/ \E x \in {c, NoCall} : outbox' = Append(outbox, x)
        BY <1>2 DEF Enqueue
      <3> QED BY <3>1, <3>2, ConnectionAssumption
    <2> QED BY <1>0, <2>1, <2>2, <2>3 DEF Moving, Flying, In
  <1>3. ASSUME ReadLine
        PROVE  \A d \in Calls : Moving(d)' => Moving(d)
    <2>1. /\ server = "ready" /\ line' \in Calls /\ In(toServer, line')
          /\ \A d \in Calls : In(toServer', d) => In(toServer, d)
      BY <1>3, TakeOut DEF TypeOK, ReadLine
    <2>2. UNCHANGED <<toClient, task, outbox, server>>
      BY <1>3 DEF ReadLine
    <2> QED BY <1>0, <2>1, <2>2 DEF Moving, Flying, In
  <1>4. ASSUME Dispatch
        PROVE  \A d \in Calls : Moving(d)' => Moving(d)
    <2>1. /\ line' = NoCall /\ line \in Calls
          /\ \A d \in Calls : d # line => task'[d] = task[d]
      BY <1>4 DEF Dispatch, TypeOK
    <2>2. UNCHANGED <<toServer, toClient, outbox, server>>
      BY <1>4 DEF Dispatch, wire
    <2> QED BY <1>0, <2>1, <2>2, ConnectionAssumption DEF Moving, Flying, In
  <1>5. ASSUME WriteFrame
        PROVE  \A d \in Calls : Moving(d)' => Moving(d)
    <2> DEFINE x == Head(outbox)
    <2>1. /\ In(outbox, x) /\ x \in Calls \cup {NoCall}
          /\ \A d \in Calls : In(outbox', d) => In(outbox, d)
      BY <1>5, TakeOut DEF TypeOK, WriteFrame
    <2>2. \A d \in Calls : In(toClient', d) => In(toClient, d) \/ d = x
      BY <1>5, <2>1, PutIn DEF TypeOK, WriteFrame
    <2>3. UNCHANGED <<toServer, line, task, server>>
      BY <1>5 DEF WriteFrame
    <2> HIDE DEF x
    <2> QED BY <1>0, <2>1, <2>2, <2>3 DEF Moving, Flying, In
  <1>6. ASSUME Gone, UNCHANGED wire
        PROVE  \A d \in Calls : Moving(d)' => Moving(d)
    <2>1. /\ server' = "exited" /\ line' = NoCall /\ outbox' = <<>>
          /\ \A d \in Calls : task'[d] = "none" /\ ~In(outbox', d)
      BY <1>6, EmptyQueue DEF Gone
    <2> QED BY <1>0, <1>6, <2>1, ConnectionAssumption DEF Moving, Flying, In, wire
  <1>7. ASSUME UNCHANGED <<wire, line, task, outbox>>,
               server' = server \/ (server = "ready" /\ server' = "closing")
        PROVE  \A d \in Calls : Moving(d)' => Moving(d)
    BY <1>0, <1>7 DEF Moving, Flying, In, wire
  <1>8. CASE Escalate \/ Exit \/ Crash
    <2>1. UNCHANGED wire /\ (Gone \/ UNCHANGED <<server, line, task, outbox>>)
      BY <1>8 DEF Escalate, Exit, Crash, host
    <2>2. CASE UNCHANGED <<server, line, task, outbox>>
      <3>1. UNCHANGED <<wire, line, task, outbox>> /\ server' = server
        BY <2>1, <2>2
      <3> QED BY <1>7, <3>1
    <2> QED BY <1>6, <2>1, <2>2
  <1>9. CASE StopLoop \/ WriterFails \/ CloseStdin \/ StdinClosed \/ CloseDone
    <2>1. /\ UNCHANGED <<wire, line, task, outbox>>
          /\ server' = server \/ (server = "ready" /\ server' = "closing")
      <3>1. CASE StopLoop
        BY <3>1 DEF StopLoop
      <3>2. CASE WriterFails
        BY <3>2 DEF WriterFails
      <3>3. CASE CloseStdin \/ StdinClosed \/ CloseDone
        BY <3>3 DEF CloseStdin, StdinClosed, CloseDone, host
      <3> QED BY <1>9, <3>1, <3>2, <3>3
    <2> QED BY <1>7, <2>1
  <1> QED BY <1>1, <1>2, <1>3, <1>4, <1>5, <1>8, <1>9 DEF Serve, Loop, Shutdown

LEMMA WayStep ==
  ASSUME IInv, [Next]_vars
  PROVE  WayInv'
  <1> USE DEF IInv
  <1>1. ASSUME NEW c \in Calls, Call(c) \/ Started(c) \/ Reserve(c) \/ GiveBack(c) \/ Return(c)
        PROVE  WayInv'
    <2>1. UNCHANGED <<wire, server, line, task, outbox>>
      BY <1>1 DEF Call, Started, Reserve, GiveBack, Return, host
    <2>2. \A d \in Calls : pc'[d] \in {"lock", "drain"} => pc'[d] = pc[d]
      BY <1>1 DEF Call, Started, Reserve, GiveBack, Return, Goto, TypeOK
    <2>3. \A d \in Calls : Moving(d)' => Moving(d)
      BY <2>1, <2>2 DEF Moving, Flying, In, wire
    <2>4. CASE UNCHANGED <<pending, abandoned, failure>>
      BY <2>3, <2>4, WayStays
    <2>5. CASE future[c] = "error" /\ Discard(c)
      BY <2>5 DEF RouterInv, Discard, WayInv
    <2> QED BY <1>1, <2>4, <2>5 DEF Call, Started, Reserve, GiveBack, Return
  <1>2. CASE Close
    BY <1>2 DEF Close, Fail, WayInv
  <1>3. CASE UNCHANGED vars
    <2>1. \A d \in Calls : Moving(d)' => Moving(d)
      BY <1>3 DEF Moving, Flying, In, vars, sdk, wire, host
    <2> QED BY <1>3, <2>1, WayStays DEF vars, sdk
  <1> QED
    BY <1>1, <1>2, <1>3, WayRegister, WayWrite, WayDrain, WayCancel, WayRead, WayServer
    DEF Next, Client

-----------------------------------------------------------------------------
(* Answers *)

\* Only a frame that is read settles a future, and it finds its own call's.
LEMMA AnswerStep ==
  ASSUME IInv, [Next]_vars
  PROVE  AnswersAreOwn'
  <1> USE DEF IInv
  <1>1. CASE UNCHANGED answer
    BY <1>1 DEF AnswersAreOwn
  <1>2. CASE ReadResponse
    <2> DEFINE c == Head(toClient)
    <2>1. /\ reading /\ toClient # <<>> /\ c # NoCall /\ IdOf[c] \notin abandoned
          /\ pending[IdOf[c]] # NoCall /\ answer' = [answer EXCEPT ![pending[IdOf[c]]] = c]
      BY <1>2 DEF ReadResponse
    <2>2. c \in Calls /\ In(toClient, c)
      BY <2>1, TakeOut DEF TypeOK
    <2> HIDE DEF c
    <2>3. ~failure
      <3>1. SUFFICES ASSUME failure PROVE FALSE
        OBVIOUS
      <3>2. closing # "open"
        BY <2>1, <3>1 DEF LifeInv
      <3> QED BY <2>1, <2>2, <3>2, IdKnown DEF LifeInv
    <2>4. pending[IdOf[c]] = c
      BY <2>1, <2>2, <2>3 DEF WayInv, Moving, Flying, Known
    <2> QED BY <2>1, <2>2, <2>4 DEF AnswersAreOwn, TypeOK
  <1>3. ReadResponse \/ UNCHANGED answer
    BY DEF Next, Call, Client, Started, Reserve, GiveBack, Register, Write, Drain, Return, Discard, Cancel,
           Serve, Admit, Enqueue, Read, ReadUnknown, ReadLate, ReadEof, Close, Shutdown, CloseStdin,
           StdinClosed, Escalate, CloseDone, Loop, ReadLine, Dispatch, StopLoop, Exit, WriteFrame,
           WriterFails, Crash, vars, sdk
  <1> QED BY <1>1, <1>2, <1>3

-----------------------------------------------------------------------------
(* The theorems *)

LEMMA Initial == Init => IInv
  <1> SUFFICES ASSUME Init PROVE IInv
    OBVIOUS
  <1> USE ConnectionAssumption
  <1>1. failure \in BOOLEAN /\ reading \in BOOLEAN /\ stopping \in BOOLEAN /\ writing \in BOOLEAN
    BY Zenon DEF Init
  <1>2. TypeOK
    BY <1>1 DEF Init, TypeOK
  <1>3. /\ PendingCalls = {} /\ abandoned = {} /\ leaked = {}
        /\ {c \in Calls : pc[c] \in InHand} = {}
    BY DEF Init, PendingCalls, InHand
  <1>4. SlotsAreAccountedFor
    <2>1. free = MaxPendingRequests /\ MaxPendingRequests \in Nat /\ Cardinality({}) = 0
      BY FS_EmptySet DEF Init
    <2> QED BY <1>3, <2>1 DEF SlotsAreAccountedFor
  <1>5. RouterInv /\ AnswersAreOwn
    BY DEF Init, RouterInv, AnswersAreOwn
  <1>6. ~failure /\ ~reading
    BY Zenon DEF Init
  <1>7. LifeInv
    BY <1>6 DEF Init, LifeInv
  <1>8. PlaceInv
    BY EmptyQueue DEF Init, PlaceInv
  <1>9. WayInv
    BY EmptyQueue DEF Init, WayInv, Moving, Flying
  <1> QED BY <1>2, <1>4, <1>5, <1>7, <1>8, <1>9 DEF IInv

LEMMA Inductive == Spec => []IInv
  <1>1. IInv /\ [Next]_vars => IInv'
    BY TypeStep, SlotsStep, RouterStep, LifeStep, PlaceStep, WayStep, AnswerStep DEF IInv
  <1> QED BY Initial, <1>1, PTL DEF Spec

\* TypeOK holds throughout: in particular the capacity semaphore of the SDK never leaves
\* 0 .. MaxPendingRequests.
THEOREM TypeCorrect == Spec => []TypeOK
  BY Inductive, PTL DEF IInv

\* No exchange returns another request's response, for any number of calls, whatever ids
\* they carry and reuse, wherever they are cancelled and whenever the child dies.
THEOREM AnswersAreAlwaysOwn == Spec => []AnswersAreOwn
  BY Inductive, PTL DEF IInv

\* Every slot of _RequestCapacity is free, behind an entry, behind a tombstone, in the hand
\* of a call that is about to register or to give it back, or lost to a cancellation inside
\* reserve's finally.
THEOREM SlotsAreAlwaysAccountedFor == Spec => []SlotsAreAccountedFor
  BY Inductive, PTL DEF IInv
=============================================================================
