--------------------------- MODULE QueueTurnsProofs ---------------------------
(***************************************************************************)
(* A queue and the turns of its session: what is in flight stays queued,    *)
(* prompts go out for queued items only, their results are told truly, a    *)
(* queue of an idle session is always looked at again, and no prompt goes   *)
(* into a running turn.                                                     *)
(***************************************************************************)
EXTENDS MessageQueueProofs

-----------------------------------------------------------------------------
(* Who changes what *)

\* A tick changes by its own steps only.
LEMMA TickSteps ==
  ASSUME TypeOK, [Next]_vars, NEW u \in Ticks
  PROVE  \/ ticks'[u] = ticks[u]
         \/ \E s \in Sessions : TickBegins(u, s)
         \/ \E s \in Sessions, i \in Ids : Probes(u, s, i) \/ Sends(u, s, i)
<1>1. CASE Mutations \/ Clocks \/ Hub \/ OpenCode \/ UNCHANGED vars
  BY <1>1 DEF Mutations, Enqueue, TakeAll, Clear, Reorder, SetHold, ReleaseHold, Remove, Take,
     CancelScheduledTask, Stop, Edit, Clocks, TimerIgnored, AbortWindowEnds, BackoffEnds, HoldExpires,
     Hub, DeliverEvent, Reconnect, OpenCode, UserPrompt, StepCompletes, Unlisted, TurnEnds,
     SubagentReturns, UserAborts, SessionDeleted, Outside, vars, loopVars
<1>2. ASSUME NEW t \in Ticks, NEW s \in Sessions,
             TickBegins(t, s) \/ \E i \in Ids : Probes(t, s, i) \/ Sends(t, s, i)
      PROVE  t = u \/ ticks'[u] = ticks[u]
  <2>1. \E x : ticks' = [ticks EXCEPT ![t] = x]
    <3>1. CASE TickBegins(t, s)
      BY <3>1 DEF TickBegins
    <3>2. CASE \E i \in Ids : Probes(t, s, i) \/ Sends(t, s, i)
      <4>1. Finish(t) \/ \E phase : Goto(t, phase)
        BY <3>2 DEF Probes, ProbeActive, ProbeTail, ProbeSubagents, ProbeFails, TargetRefused,
           TargetValid, GiveUp, Sends, Launch, BeforeSendPasses, BeforeSendRefuses, Prepare,
           SendFails, SendFailed, PromptAdmitted, SendSucceeds, ResponseLost
      <4> QED
        BY <4>1 DEF Finish, Goto
    <3> QED
      BY <1>2, <3>1, <3>2
  <2> QED
    BY <2>1 DEF TypeOK
<1> QED
  BY <1>1, <1>2 DEF Next, Loop

\* The turn of a session changes by OpenCode, or by a prompt it admits.
LEMMA TurnSteps ==
  ASSUME TypeOK, [Next]_vars, NEW s \in Sessions, turn'[s] # turn[s]
  PROVE  \/ UserPrompt(s) \/ Unlisted(s) \/ TurnEnds(s) \/ SubagentReturns(s)
         \/ UserAborts(s) \/ SessionDeleted(s)
         \/ \E t \in Ticks, i \in Ids : PromptAdmitted(t, s, i)
<1>1. CASE Mutations \/ Clocks \/ Hub \/ UNCHANGED vars
  BY <1>1 DEF Mutations, Enqueue, TakeAll, Clear, Reorder, SetHold, ReleaseHold, Remove, Take,
     CancelScheduledTask, Stop, Edit, Clocks, TimerIgnored, AbortWindowEnds, BackoffEnds, HoldExpires,
     Hub, DeliverEvent, Reconnect, vars, external
<1>2. CASE OpenCode
  BY <1>2 DEF OpenCode, UserPrompt, StepCompletes, Unlisted, TurnEnds, SubagentReturns,
     UserAborts, SessionDeleted, SetTurn, TypeOK
<1>3. ASSUME NEW t \in Ticks, NEW r \in Sessions, TickBegins(t, r) PROVE FALSE
  BY <1>3 DEF TickBegins, external
<1>4. ASSUME NEW t \in Ticks, NEW r \in Sessions, NEW i \in Ids, Probes(t, r, i) \/ Sends(t, r, i)
      PROVE  r = s /\ PromptAdmitted(t, r, i)
  <2>1. CASE ~PromptAdmitted(t, r, i)
    BY <1>4, <2>1 DEF Probes, ProbeActive, ProbeTail, ProbeSubagents, ProbeFails, TargetRefused,
       TargetValid, GiveUp, Sends, Launch, BeforeSendPasses, BeforeSendRefuses, Prepare,
       SendFails, SendSucceeds, ResponseLost, external
  <2>2. CASE PromptAdmitted(t, r, i)
    BY <2>2 DEF PromptAdmitted, TypeOK, external
  <2> QED
    BY <2>1, <2>2
<1> QED
  BY <1>1, <1>2, <1>3, <1>4 DEF Next, Loop

\* Events are emitted for what a turn does, delivered in order, or lost.
LEMMA EventSteps ==
  ASSUME TypeOK, [Next]_vars
  PROVE  \/ UNCHANGED events
         \/ DeliverEvent \/ Reconnect
         \/ \E t \in Ticks, s \in Sessions, i \in Ids : PromptAdmitted(t, s, i) /\ Emit("busy", s)
         \/ \E s \in Sessions : UserPrompt(s) \/ StepCompletes(s) \/ TurnEnds(s) \/ SubagentReturns(s)
                                \/ UserAborts(s) \/ SessionDeleted(s)
<1>1. CASE Mutations \/ Clocks \/ UNCHANGED vars
  BY <1>1 DEF Mutations, Enqueue, TakeAll, Clear, Reorder, SetHold, ReleaseHold, Remove, Take,
     CancelScheduledTask, Stop, Edit, Clocks, TimerIgnored, AbortWindowEnds, BackoffEnds, HoldExpires,
     vars, external
<1>2. CASE OpenCode \/ Hub
  BY <1>2 DEF OpenCode, Hub, Unlisted
<1>3. CASE Loop
  BY <1>3 DEF Loop, TickBegins, Probes, ProbeActive, ProbeTail, ProbeSubagents, ProbeFails, TargetRefused,
     TargetValid, GiveUp, Sends, Launch, BeforeSendPasses, BeforeSendRefuses, Prepare,
     SendFails, SendSucceeds, ResponseLost, PromptAdmitted, external
<1> QED
  BY <1>1, <1>2, <1>3 DEF Next

\* A prompt is admitted in the step of the tick that sent it.
LEMMA AdmitSteps ==
  ASSUME TypeOK, [Next]_vars, NEW t \in Ticks, Admits(t)
  PROVE  /\ ticks[t] \in Tick /\ InFlight(t)
         /\ PromptAdmitted(t, ticks[t].session, ticks[t].item)
<1>1. ticks[t] \in Tick /\ InFlight(t) /\ ticks'[t] # ticks[t]
  BY DEF Admits, TypeOK, InFlight, FlightPhases
<1>2. ASSUME NEW s \in Sessions, TickBegins(t, s) PROVE FALSE
  BY <1>1, <1>2 DEF TickBegins, InFlight
<1>3. ASSUME NEW s \in Sessions, NEW i \in Ids, Probes(t, s, i) \/ Sends(t, s, i)
      PROVE  s = ticks[t].session /\ i = ticks[t].item /\ PromptAdmitted(t, s, i)
  <2>1. Running(t, s, i, {"prompt"}) /\ ~Finish(t) /\ ~Goto(t, "prepare")
    <3>1. Running(t, s, i, ProbePhases \cup FlightPhases)
      BY <1>3 DEF Probes, ProbeActive, ProbeTail, ProbeSubagents, ProbeFails, TargetRefused,
         TargetValid, GiveUp, Sends, Launch, BeforeSendPasses, BeforeSendRefuses, Prepare,
         SendFails, SendFailed, PromptAdmitted, SendSucceeds, ResponseLost, Running, ProbePhases, FlightPhases
    <3>2. ~Finish(t) /\ ~Goto(t, "prepare")
      BY <1>1 DEF Finish, Goto, Admits, TypeOK, Tick
    <3> QED
      BY <3>1, <3>2 DEF Running, Admits
  <2>2. PromptAdmitted(t, s, i)
    BY <1>3, <2>1 DEF Probes, ProbeActive, ProbeTail, ProbeSubagents, ProbeFails, TargetRefused,
       TargetValid, GiveUp, Sends, Launch, BeforeSendPasses, BeforeSendRefuses, Prepare,
       SendFails, SendFailed, SendSucceeds, ResponseLost, Running
  <2> QED
    BY <2>1, <2>2 DEF Running
<1> QED
  BY <1>1, <1>2, <1>3, TickSteps

-----------------------------------------------------------------------------
(* Deleted sessions *)

\* What is deleted stays deleted, and was deleted when the hub says so.
GoneInv ==
  /\ \A n \in 1 .. Len(events) : events[n].type = "deleted" => turn[events[n].session] = "gone"
  /\ \A s \in Sessions : turn[s] = "gone" => Happens("delete")

LEMMA StaysGone ==
  ASSUME TypeOK, [Next]_vars, NEW s \in Sessions, turn[s] = "gone"
  PROVE  turn'[s] = "gone"
BY TurnSteps DEF UserPrompt, Unlisted, TurnEnds, SubagentReturns, UserAborts, SessionDeleted,
   PromptAdmitted, Quiet

\* A session is gone after its deletion.
LEMMA BecomesGone ==
  ASSUME TypeOK, [Next]_vars, NEW s \in Sessions, turn'[s] = "gone"
  PROVE  turn[s] = "gone" \/ SessionDeleted(s)
<1> SUFFICES ASSUME turn[s] # "gone" PROVE SessionDeleted(s)
  OBVIOUS
<1>1. ASSUME UserPrompt(s) \/ Unlisted(s) \/ TurnEnds(s) \/ SubagentReturns(s) \/ UserAborts(s) PROVE FALSE
  BY <1>1 DEF UserPrompt, Unlisted, TurnEnds, SubagentReturns, UserAborts, SetTurn, TypeOK
<1>2. ASSUME NEW t \in Ticks, NEW i \in Ids, PromptAdmitted(t, s, i) PROVE FALSE
  BY <1>2 DEF PromptAdmitted, TypeOK, external
<1> QED
  BY <1>1, <1>2, TurnSteps

\* What an emitted event adds to the stream.
LEMMA EmitAdds ==
  ASSUME TypeOK, NEW type, NEW s \in Sessions, Emit(type, s)
  PROVE  /\ Len(events') = Len(events) + 1 /\ Len(events) \in Nat
         /\ events'[Len(events) + 1] = [type |-> type, session |-> s]
         /\ \A n \in 1 .. Len(events) : events'[n] = events[n]
BY DEF Emit, TypeOK

\* What a delivered event leaves of the stream.
LEMMA DeliverTakes ==
  ASSUME TypeOK, DeliverEvent
  PROVE  /\ Len(events) \in Nat \ {0} /\ Len(events') = Len(events) - 1
         /\ events[1] \in [type : EventTypes, session : Sessions] /\ events[1] = Head(events)
         /\ \A n \in 1 .. Len(events') : events'[n] = events[n + 1]
<1> DEFINE Event == [type : EventTypes, session : Sessions]
<1>1. events # <<>> /\ events' = Tail(events) /\ events \in Seq(Event)
  BY DEF DeliverEvent, TypeOK
<1> HIDE DEF Event
<1>2. Len(events) \in Nat \ {0} /\ Len(events') = Len(events) - 1 /\ Head(events) \in Event
  BY <1>1, HeadTailProperties, EmptySeq
<1>3. events[1] = Head(events) /\ \A n \in 1 .. Len(events') : events'[n] = events[n + 1]
  BY <1>1, <1>2
<1> QED
  BY <1>2, <1>3 DEF Event

LEMMA GoneInvCorrect == Spec => []GoneInv
<1>1. Init => GoneInv
  BY DEF Init, GoneInv, Quiet
<1>2. TypeOK /\ GoneInv /\ [Next]_vars => GoneInv'
  <2> SUFFICES ASSUME TypeOK, GoneInv, [Next]_vars PROVE GoneInv'
    OBVIOUS
  <2>1. ASSUME NEW s \in Sessions, turn'[s] = "gone" PROVE Happens("delete")
    BY <2>1, BecomesGone DEF GoneInv, SessionDeleted
  <2>2. ASSUME NEW n \in 1 .. Len(events'), events'[n].type = "deleted" PROVE turn'[events'[n].session] = "gone"
    <3>1. ASSUME NEW m \in 1 .. Len(events), events'[n] = events[m] PROVE turn'[events'[n].session] = "gone"
      <4>1. events[m] \in [type : EventTypes, session : Sessions]
        BY ElementOfSeq DEF TypeOK
      <4>2. events[m].session \in Sessions /\ turn[events[m].session] = "gone"
        BY <2>2, <3>1, <4>1 DEF GoneInv
      <4> QED
        BY <3>1, <4>2, StaysGone
    <3>2. CASE UNCHANGED events
      BY <2>2, <3>1, <3>2
    <3>3. CASE DeliverEvent
      BY <2>2, <3>1, <3>3, DeliverTakes
    <3>4. CASE Reconnect
      BY <2>2, <3>4 DEF Reconnect
    <3>5. ASSUME NEW s \in Sessions, NEW type \in EventTypes, Emit(type, s), type = "deleted" => turn'[s] = "gone"
          PROVE  turn'[events'[n].session] = "gone"
      <4>1. /\ Len(events') = Len(events) + 1 /\ Len(events) \in Nat
            /\ events'[Len(events) + 1] = [type |-> type, session |-> s]
            /\ \A m \in 1 .. Len(events) : events'[m] = events[m]
        BY <3>5, EmitAdds
      <4>2. CASE n \in 1 .. Len(events)
        BY <3>1, <4>1, <4>2
      <4>3. CASE n = Len(events) + 1
        BY <2>2, <3>5, <4>1, <4>3
      <4> QED
        BY <2>2, <4>1, <4>2, <4>3
    <3>6. ASSUME NEW s \in Sessions,
                 \/ UserPrompt(s) \/ StepCompletes(s) \/ TurnEnds(s) \/ SubagentReturns(s)
                 \/ UserAborts(s) \/ SessionDeleted(s)
          PROVE  turn'[events'[n].session] = "gone"
      BY <3>5, <3>6 DEF UserPrompt, StepCompletes, TurnEnds, SubagentReturns, UserAborts,
         SessionDeleted, EventTypes, SetTurn, TypeOK
    <3>7. ASSUME NEW t \in Ticks, NEW s \in Sessions, NEW i \in Ids, PromptAdmitted(t, s, i), Emit("busy", s)
          PROVE  turn'[events'[n].session] = "gone"
      BY <3>5, <3>7 DEF EventTypes
    <3> QED
      BY <3>2, <3>3, <3>4, <3>6, <3>7, EventSteps
  <2> QED
    BY <2>1, <2>2 DEF GoneInv
<1> QED
  BY <1>1, <1>2, TypeCorrect, PTL DEF Spec

-----------------------------------------------------------------------------
(* What is in flight *)

\* No queue is at MAX_ITEMS_PER_SESSION while items are created: a full queue
\* drops its oldest item, in flight or not, for the new one.
RoomLeft == created < MaxId => \A s \in Sessions : Cardinality(queues[s]) < MaxItems

\* Room for a new item keeps all that waits in its queue.
LEMMA RoomKeepsAll ==
  ASSUME TypeOK, RoomLeft, NEW s \in Sessions, NEW k, Enqueue(s, k)
  PROVE  queues[s] \subseteq queues'[s]
<1> DEFINE id == created + 1
           items == queues[s] \cup {id}
<1>1. created < MaxId /\ queues'[s] = Newest(items, id)
  BY DEF Enqueue
<1>2. IsFiniteSet(Ids) /\ queues[s] \subseteq Ids
  BY BoundsAssumption, FS_Interval DEF Ids, TypeOK
<1>3. IsFiniteSet(queues[s]) /\ IsFiniteSet(items)
  BY <1>2, FS_Subset, FS_AddElement
<1>4. Cardinality(items) <= Cardinality(queues[s]) + 1 /\ Cardinality(queues[s]) \in Nat
  <2>1. Cardinality(queues[s]) \in Nat
    BY <1>3, FS_CardinalityType
  <2>2. Cardinality(items) = IF id \in queues[s] THEN Cardinality(queues[s]) ELSE Cardinality(queues[s]) + 1
    BY <1>3, FS_AddElement
  <2> QED
    BY <2>1, <2>2
<1>5. Cardinality(queues[s]) < MaxItems
  BY <1>1 DEF RoomLeft
<1>6. ASSUME NEW part \in SUBSET items PROVE Cardinality(part) <= MaxItems
  <2>1. IsFiniteSet(part) /\ Cardinality(part) <= Cardinality(items)
    BY <1>3, FS_Subset
  <2>2. Cardinality(part) \in Nat /\ Cardinality(items) \in Nat
    BY <1>3, <2>1, FS_CardinalityType
  <2> QED
    BY <1>4, <1>5, <2>1, <2>2, BoundsAssumption
<1> HIDE DEF id
<1>7. \A i \in items : i \in Newest(items, id)
  <2> SUFFICES ASSUME NEW i \in items PROVE i \in Newest(items, id)
    OBVIOUS
  <2> DEFINE Place(j) == IF j = id THEN id ELSE position[j]
             part == {j \in items : Place(j) >= Place(i)}
  <2>1. Cardinality(part) <= MaxItems
    BY <1>6
  <2> QED
    BY <2>1 DEF Newest
<1> QED
  BY <1>1, <1>7

\* What is in flight leaves its queue with the deletion of its session, by the
\* end of a send, by the refusal of its target, or for want of room.
LEMMA FlightLeaves ==
  ASSUME TypeOK, [Next]_vars, NEW s \in Sessions, sending[s] \in queues[s], sending[s] \notin queues'[s]
  PROVE  \/ DeliverEvent /\ Head(events) = [type |-> "deleted", session |-> s]
         \/ \E t \in Ticks : \/ BeforeSendRefuses(t, s, sending[s])
                             \/ SendSucceeds(t, s, sending[s])
                             \/ TargetRefused(t, s, sending[s])
         \/ ~RoomLeft
<1>1. sending[s] # NoId /\ queues[s] # {}
  BY DEF TypeOK, Ids, NoId
<1>2. ASSUME UNCHANGED queues PROVE FALSE
  BY <1>2
<1>3. CASE Mutations
  <2>1. ASSUME NEW r \in Sessions, NEW k \in Tasks \cup {NoTask}, Enqueue(r, k) PROVE ~RoomLeft
    <3>1. CASE r = s
      BY <2>1, <3>1, RoomKeepsAll
    <3>2. CASE r # s
      <4>1. s \notin Evicted(r)
        BY <1>1 DEF Evicted
      <4> QED
        BY <2>1, <3>2, <4>1 DEF Enqueue
    <3> QED
      BY <3>1, <3>2
  <2>2. ASSUME NEW r \in Sessions, NEW items, Edit(r, items), r = s => sending[s] \in items PROVE FALSE
    BY <2>2 DEF Edit, SetQueueItems, TypeOK
  <2>3. ASSUME NEW r \in Sessions, TakeAll(r) \/ Clear(r) PROVE FALSE
    BY <2>2, <2>3 DEF TakeAll, Clear
  <2>4. ASSUME NEW r \in Sessions, NEW i \in Ids, Remove(r, i) \/ Take(r, i) PROVE FALSE
    BY <2>2, <2>4 DEF Remove, Take
  <2>5. ASSUME NEW k \in Tasks, CancelScheduledTask(k) PROVE FALSE
    BY <2>5 DEF CancelScheduledTask, Cancelled
  <2>6. ASSUME NEW r \in Sessions, Reorder(r) \/ SetHold(r) \/ ReleaseHold(r) \/ Stop PROVE FALSE
    BY <2>6 DEF Reorder, SetHold, ReleaseHold, Stop, queueVars
  <2> QED
    BY <1>3, <2>1, <2>3, <2>4, <2>5, <2>6 DEF Mutations
<1>4. CASE Clocks \/ Reconnect \/ OpenCode \/ UNCHANGED vars
  BY <1>2, <1>4 DEF Clocks, TimerIgnored, AbortWindowEnds, BackoffEnds, HoldExpires, Reconnect,
     OpenCode, UserPrompt, StepCompletes, Unlisted, TurnEnds, SubagentReturns, UserAborts,
     SessionDeleted, Outside, vars, queueVars
<1>5. CASE DeliverEvent
  <2>1. Head(events) \in [type : EventTypes, session : Sessions]
    BY <1>5, DeliverTakes
  <2>2. Head(events).type = "deleted" /\ DropDeletedSession(Head(events).session)
    BY <1>2, <1>5 DEF DeliverEvent, ProcessPayload, queueVars
  <2>3. Head(events).session = s
    BY <2>1, <2>2 DEF DropDeletedSession, TypeOK
  <2> QED
    BY <1>5, <2>1, <2>2, <2>3
<1>6. ASSUME NEW t \in Ticks, NEW r \in Sessions, TickBegins(t, r) PROVE FALSE
  BY <1>2, <1>6 DEF TickBegins, queueVars
<1>7. ASSUME NEW r \in Sessions, NEW i, NEW status, DropFromQueue(r, i, status) PROVE r = s /\ i = sending[s]
  BY <1>7, DropTakesOut DEF TypeOK
<1>8. ASSUME NEW t \in Ticks, NEW r \in Sessions, NEW i \in Ids, Probes(t, r, i)
      PROVE  r = s /\ i = sending[s] /\ TargetRefused(t, r, i)
  <2>1. CASE TargetRefused(t, r, i)
    BY <1>7, <2>1 DEF TargetRefused
  <2>2. CASE ~TargetRefused(t, r, i)
    BY <1>2, <1>8, <2>2 DEF Probes, ProbeActive, ProbeTail, ProbeSubagents, ProbeFails,
       TargetValid, GiveUp, queueVars
  <2> QED
    BY <2>1, <2>2
<1>9. ASSUME NEW t \in Ticks, NEW r \in Sessions, NEW i \in Ids, Sends(t, r, i)
      PROVE  r = s /\ i = sending[s] /\ (BeforeSendRefuses(t, r, i) \/ SendSucceeds(t, r, i))
  <2>1. CASE BeforeSendRefuses(t, r, i) \/ SendSucceeds(t, r, i)
    BY <1>7, <2>1 DEF BeforeSendRefuses, SendSucceeds
  <2>2. CASE ~BeforeSendRefuses(t, r, i) /\ ~SendSucceeds(t, r, i)
    BY <1>2, <1>9, <2>2 DEF Sends, Launch, BeforeSendPasses, Prepare, SendFails, SendFailed,
       PromptAdmitted, ResponseLost, queueVars
  <2> QED
    BY <2>1, <2>2
<1> QED
  BY <1>3, <1>4, <1>5, <1>6, <1>8, <1>9 DEF Next, Loop, Hub

\* No two ticks overlap.
OneTick == \A t, u \in Ticks : t = u

\* A task is not refused while another tick has its item in flight.
NoRefusalMeanwhile == OneTick \/ ~Happens("refuse")

\* An item waits in its queue until its prompt is out, unless its session was
\* deleted meanwhile.
FlightQueued ==
  \A t \in Ticks : InFlight(t) /\ ticks[t].phase # "answer" =>
    ticks[t].item \in queues[ticks[t].session] \/ turn[ticks[t].session] = "gone"

\* A target that is refused while its item is in flight is that of a deleted
\* session, by a tick that overlaps the one in flight.
LEMMA RefusedInFlight ==
  ASSUME TypeOK, OneSendPerSession, NoRefusalMeanwhile, NEW s \in Sessions, sending[s] # NoId,
         NEW t \in Ticks, TargetRefused(t, s, sending[s])
  PROVE  turn[s] = "gone" /\ ~OneTick
<1>1. PICK u \in Ticks : InFlight(u) /\ ticks[u].session = s
  BY DEF OneSendPerSession
<1>2. t # u
  BY <1>1 DEF TargetRefused, Running, InFlight, FlightPhases
<1> QED
  BY <1>2 DEF NoRefusalMeanwhile, OneTick, TargetRefused

LEMMA FlightQueuedStep ==
  ASSUME NoRefusalMeanwhile, RoomLeft, TypeOK, OneSendPerSession, OneSendPerSession', GoneInv, FlightQueued, [Next]_vars
  PROVE  FlightQueued'
<1> SUFFICES ASSUME NEW t \in Ticks, InFlight(t)', ticks'[t].phase # "answer",
                    turn'[ticks'[t].session] # "gone"
             PROVE  ticks'[t].item \in queues'[ticks'[t].session]
  BY DEF FlightQueued, InFlight
<1> DEFINE s == ticks'[t].session
           i == ticks'[t].item
<1>1. CASE Launch(t, s, i) /\ s \in Sessions
  BY <1>1 DEF Launch, IsHead, queueVars
<1>2. CASE InFlight(t) /\ ticks'[t].session = ticks[t].session /\ ticks'[t].item = ticks[t].item
  <2>1. ticks[t] \in Tick /\ s \in Sessions /\ i \in Ids
    BY <1>2 DEF InFlight, TypeOK, Tick
  <2>2. sending[s] = i /\ sending'[s] = i /\ i # NoId
    BY <1>2, <2>1 DEF OneSendPerSession, Ids, NoId
  <2>3. ticks[t].phase # "answer"
    <3>1. ASSUME ticks[t].phase = "answer", NEW r \in Sessions, NEW j \in Ids, Probes(t, r, j) \/ Sends(t, r, j)
          PROVE  FALSE
      <4>1. Running(t, r, j, {"answer"}) /\ (SendSucceeds(t, r, j) \/ ResponseLost(t, r, j))
        BY <1>2, <3>1 DEF Probes, ProbeActive, ProbeTail, ProbeSubagents, ProbeFails, TargetRefused,
           TargetValid, GiveUp, Sends, Launch, BeforeSendPasses, BeforeSendRefuses, Prepare,
           SendFails, SendFailed, PromptAdmitted, SendSucceeds, ResponseLost, Running
      <4>2. Finish(t)
        BY <4>1 DEF SendSucceeds, ResponseLost, SendFailed
      <4> QED
        BY <4>2 DEF Finish, InFlight, TypeOK
    <3>2. ASSUME NEW r \in Sessions, TickBegins(t, r) PROVE FALSE
      BY <1>2, <3>2 DEF TickBegins, InFlight
    <3>3. CASE ticks'[t] = ticks[t]
      BY <3>3
    <3> QED
      BY <3>1, <3>2, <3>3, TickSteps
  <2>4. turn[s] # "gone"
    BY <2>1, StaysGone
  <2>5. i \in queues[s]
    BY <1>2, <2>3, <2>4 DEF FlightQueued
  <2>6. CASE i \notin queues'[s]
    <3>1. ASSUME DeliverEvent, Head(events) = [type |-> "deleted", session |-> s] PROVE FALSE
      BY <2>4, <3>1, DeliverTakes DEF GoneInv
    <3>2. ASSUME NEW u \in Ticks, BeforeSendRefuses(u, s, i) \/ SendSucceeds(u, s, i) PROVE FALSE
      <4>1. sending'[s] = NoId
        BY <2>1, <3>2 DEF BeforeSendRefuses, SendSucceeds, TypeOK
      <4> QED
        BY <2>2, <4>1
    <3>3. ASSUME NEW u \in Ticks, TargetRefused(u, s, i) PROVE FALSE
      BY <2>1, <2>2, <2>4, <3>3, RefusedInFlight
    <3> QED
      BY <2>1, <2>2, <2>5, <2>6, <3>1, <3>2, <3>3, FlightLeaves
  <2> QED
    BY <2>6
<1> QED
  BY <1>1, <1>2, FlightSteps

\* However ticks, edits and evictions interleave, an item that is to be prompted
\* waits in the queue of its session.
LEMMA FlightQueuedCorrect ==
  ASSUME NoRefusalMeanwhile
  PROVE  Spec /\ []RoomLeft => []FlightQueued
<1>1. Init => FlightQueued
  BY DEF Init, FlightQueued, InFlight
<1>2. /\ RoomLeft /\ TypeOK /\ OneSendPerSession /\ OneSendPerSession' /\ GoneInv
      /\ FlightQueued /\ [Next]_vars
      => FlightQueued'
  BY FlightQueuedStep
<1> QED
  BY <1>1, <1>2, TypeCorrect, OneSendPerSessionCorrect, GoneInvCorrect, PTL DEF Spec

\* What is in flight leaves its queue only by the end of its own send, or with
\* the queue of a deleted session: for any number of sessions, tasks and items,
\* as long as no queue is full and no other tick has the target refused.
THEOREM InFlightStaysQueuedCorrect ==
  ASSUME NoRefusalMeanwhile, OneTick \/ ~Happens("delete")
  PROVE  Spec /\ []RoomLeft => InFlightStaysQueued
<1>1. /\ RoomLeft /\ TypeOK /\ OneSendPerSession /\ GoneInv /\ [Next]_vars
      => \A s \in Sessions : sending[s] \in queues[s] /\ sending[s] \notin queues'[s]
           => sending'[s] = NoId \/ directories' = directories \ {s}
  <2> SUFFICES ASSUME RoomLeft, TypeOK, OneSendPerSession, GoneInv, [Next]_vars, NEW s \in Sessions,
                      sending[s] \in queues[s], sending[s] \notin queues'[s]
               PROVE  sending'[s] = NoId \/ directories' = directories \ {s}
    OBVIOUS
  <2>1. ASSUME DeliverEvent, Head(events) = [type |-> "deleted", session |-> s]
        PROVE  directories' = directories \ {s}
    <3>1. DropDeletedSession(s) \/ UNCHANGED queues
      BY <2>1 DEF DeliverEvent, ProcessPayload, queueVars
    <3> QED
      BY <3>1 DEF DropDeletedSession
  <2>2. ASSUME NEW t \in Ticks, BeforeSendRefuses(t, s, sending[s]) \/ SendSucceeds(t, s, sending[s])
        PROVE  sending'[s] = NoId
    BY <2>2 DEF BeforeSendRefuses, SendSucceeds, TypeOK
  <2>3. ASSUME NEW t \in Ticks, TargetRefused(t, s, sending[s]) PROVE FALSE
    <3>1. sending[s] # NoId
      BY DEF TypeOK, Ids, NoId
    <3>2. turn[s] = "gone" /\ ~OneTick
      BY <2>3, <3>1, RefusedInFlight
    <3> QED
      BY <3>2 DEF GoneInv
  <2> QED
    BY <2>1, <2>2, <2>3, FlightLeaves
<1> QED
  BY <1>1, TypeCorrect, OneSendPerSessionCorrect, GoneInvCorrect, PTL DEF Spec, InFlightStaysQueued

\* No prompt goes out for an item that a client removed or took back, or that
\* went with its task, its queue or its session.
THEOREM OnlyQueuedItemsPromptedCorrect ==
  ASSUME NoRefusalMeanwhile
  PROVE  Spec /\ []RoomLeft => OnlyQueuedItemsPrompted
<1>1. TypeOK /\ FlightQueued /\ [Next]_vars =>
        \A t \in Ticks : Admits(t) => ticks[t].item \in queues[ticks[t].session]
  <2> SUFFICES ASSUME TypeOK, FlightQueued, [Next]_vars, NEW t \in Ticks, Admits(t)
               PROVE  ticks[t].item \in queues[ticks[t].session]
    OBVIOUS
  <2>1. InFlight(t) /\ ticks[t].phase = "prompt" /\ turn[ticks[t].session] # "gone"
    BY AdmitSteps DEF PromptAdmitted, Admits
  <2> QED
    BY <2>1 DEF FlightQueued
<1> QED
  BY <1>1, TypeCorrect, FlightQueuedCorrect, PTL DEF Spec, OnlyQueuedItemsPrompted

-----------------------------------------------------------------------------
(* Directories *)

\* The queue of a session that was not restored from a file has a directory.
QueuesHaveDirectories == Queued \subseteq directories

\* A runtime that restores no queue remembers the directory of each session that
\* has one, and names it when the queue becomes empty.
THEOREM LastBroadcastNamesDirectoryCorrect ==
  ASSUME \A q \in StoredQueues : \A s \in Sessions : q[s] = {}
  PROVE  Spec => LastBroadcastNamesDirectory
<1>1. Init => QueuesHaveDirectories
  BY DEF Init, QueuesHaveDirectories, Queued
<1>2. TypeOK /\ QueuesHaveDirectories /\ [Next]_vars => QueuesHaveDirectories'
  <2> SUFFICES ASSUME TypeOK, QueuesHaveDirectories, [Next]_vars PROVE QueuesHaveDirectories'
    OBVIOUS
  <2> USE DEF QueuesHaveDirectories, Queued
  <2>1. ASSUME UNCHANGED <<queues, directories>> PROVE QueuesHaveDirectories'
    BY <2>1
  <2>2. ASSUME NEW s \in Sessions, NEW items, NEW status, SetQueueItems(s, items, status) PROVE QueuesHaveDirectories'
    BY <2>2 DEF SetQueueItems, TypeOK
  <2>3. ASSUME NEW s \in Sessions, NEW i, NEW status, DropFromQueue(s, i, status) PROVE QueuesHaveDirectories'
    BY <2>1, <2>2, <2>3 DEF DropFromQueue
  <2>4. CASE Mutations
    <3>1. ASSUME NEW s \in Sessions, NEW k \in Tasks \cup {NoTask}, Enqueue(s, k) PROVE QueuesHaveDirectories'
      <4>1. s \notin Evicted(s)
        BY DEF Evicted
      <4> QED
        BY <3>1, <4>1 DEF Enqueue
    <3>2. ASSUME NEW s \in Sessions, NEW items, Edit(s, items) PROVE QueuesHaveDirectories'
      BY <2>2, <3>2 DEF Edit
    <3>3. ASSUME NEW k \in Tasks, CancelScheduledTask(k) PROVE QueuesHaveDirectories'
      BY <3>3 DEF CancelScheduledTask
    <3>4. ASSUME NEW s \in Sessions, Reorder(s) \/ SetHold(s) \/ ReleaseHold(s) \/ Stop PROVE QueuesHaveDirectories'
      BY <2>1, <3>4 DEF Reorder, SetHold, ReleaseHold, Stop, queueVars
    <3> QED
      BY <2>1, <2>4, <3>1, <3>2, <3>3, <3>4 DEF Mutations, TakeAll, Clear, Remove, Take, Stop, queueVars
  <2>5. CASE Clocks \/ Reconnect \/ OpenCode \/ UNCHANGED vars
    BY <2>1, <2>5 DEF Clocks, TimerIgnored, AbortWindowEnds, BackoffEnds, HoldExpires, Reconnect,
       OpenCode, UserPrompt, StepCompletes, Unlisted, TurnEnds, SubagentReturns, UserAborts,
       SessionDeleted, Outside, vars, queueVars
  <2>6. CASE DeliverEvent
    <3>1. UNCHANGED <<queues, directories>> \/ DropDeletedSession(Head(events).session)
      BY <2>6 DEF DeliverEvent, ProcessPayload, queueVars
    <3>2. Head(events) \in [type : EventTypes, session : Sessions]
      BY <2>6, DeliverTakes
    <3> QED
      BY <2>1, <3>1, <3>2 DEF DropDeletedSession, TypeOK
  <2>7. ASSUME NEW t \in Ticks, NEW s \in Sessions, TickBegins(t, s) PROVE QueuesHaveDirectories'
    BY <2>1, <2>7 DEF TickBegins, queueVars
  <2>8. ASSUME NEW t \in Ticks, NEW s \in Sessions, NEW i \in Ids, Probes(t, s, i) \/ Sends(t, s, i)
        PROVE  QueuesHaveDirectories'
    <3>1. CASE TargetRefused(t, s, i) \/ BeforeSendRefuses(t, s, i) \/ SendSucceeds(t, s, i)
      BY <2>3, <3>1 DEF TargetRefused, BeforeSendRefuses, SendSucceeds
    <3>2. CASE ~(TargetRefused(t, s, i) \/ BeforeSendRefuses(t, s, i) \/ SendSucceeds(t, s, i))
      <4>1. UNCHANGED queueVars
        BY <2>8, <3>2 DEF Probes, ProbeActive, ProbeTail, ProbeSubagents, ProbeFails, TargetValid, GiveUp,
           Sends, Launch, BeforeSendPasses, Prepare, SendFails, SendFailed, PromptAdmitted, ResponseLost
      <4> QED
        BY <2>1, <4>1 DEF queueVars
    <3> QED
      BY <3>1, <3>2
  <2> QED
    BY <2>4, <2>5, <2>6, <2>7, <2>8 DEF Next, Loop, Hub
<1>3. QueuesHaveDirectories => \A s \in Queued : queues'[s] = {} => s \in directories \cup directories'
  BY DEF QueuesHaveDirectories
<1> QED
  BY <1>1, <1>2, <1>3, TypeCorrect, PTL DEF Spec, LastBroadcastNamesDirectory

-----------------------------------------------------------------------------
(* True results *)

\* What the scheduler is told happened: only scheduled items are reported, and
\* an item whose answer is out was admitted.
TrueInv ==
  /\ ScheduledResultTrue
  /\ \A t \in Ticks : InFlight(t) /\ ticks[t].phase = "answer" => admitted[ticks[t].item] > 0
  /\ \A i \in Ids : task[i] = NoTask \/ i > created => reports[i] = <<>>

\* OpenCode admits what is prompted; what is known as lost stays so.
LEMMA AdmittedSteps ==
  ASSUME TypeOK, [Next]_vars
  PROVE  /\ lost \subseteq lost'
         /\ \/ UNCHANGED admitted
            \/ \E t \in Ticks, s \in Sessions, i \in Ids :
                 PromptAdmitted(t, s, i) /\ admitted' = [admitted EXCEPT ![i] = @ + 1]
<1>1. CASE Mutations \/ Clocks \/ Hub \/ OpenCode \/ UNCHANGED vars
  BY <1>1 DEF Mutations, Enqueue, TakeAll, Clear, Reorder, SetHold, ReleaseHold, Remove, Take,
     CancelScheduledTask, Stop, Edit, Clocks, TimerIgnored, AbortWindowEnds, BackoffEnds, HoldExpires,
     Hub, DeliverEvent, Reconnect, OpenCode, UserPrompt, StepCompletes, Unlisted, TurnEnds,
     SubagentReturns, UserAborts, SessionDeleted, Outside, vars, history
<1>2. CASE Loop
  BY <1>2 DEF Loop, TickBegins, Probes, ProbeActive, ProbeTail, ProbeSubagents, ProbeFails,
     TargetRefused, TargetValid, GiveUp, Sends, Launch, BeforeSendPasses, BeforeSendRefuses, Prepare,
     SendFails, SendSucceeds, ResponseLost, PromptAdmitted, history
<1> QED
  BY <1>1, <1>2 DEF Next

\* A tick waits for an answer from the step on that got its prompt admitted.
LEMMA AnswerAwaited ==
  ASSUME TypeOK, [Next]_vars, NEW t \in Ticks, InFlight(t)', ticks'[t].phase = "answer"
  PROVE  \/ ticks'[t] = ticks[t] /\ InFlight(t)
         \/ /\ PromptAdmitted(t, ticks[t].session, ticks[t].item) /\ ticks[t] \in Tick
            /\ ticks'[t].session = ticks[t].session /\ ticks'[t].item = ticks[t].item
<1>1. CASE ticks'[t] = ticks[t]
  BY <1>1 DEF InFlight
<1>2. ASSUME NEW s \in Sessions, TickBegins(t, s) PROVE FALSE
  <2>1. PICK head \in queues[s] :
          ticks' = [ticks EXCEPT ![t] = [phase |-> "active", session |-> s, item |-> head]]
    BY <1>2 DEF TickBegins
  <2> QED
    BY <2>1 DEF TypeOK
<1>3. ASSUME NEW s \in Sessions, NEW i \in Ids, Probes(t, s, i) \/ Sends(t, s, i)
      PROVE  /\ PromptAdmitted(t, ticks[t].session, ticks[t].item) /\ ticks[t] \in Tick
             /\ ticks'[t].session = ticks[t].session /\ ticks'[t].item = ticks[t].item
  <2>1. ticks[t] \in Tick /\ ticks[t].item = i /\ ticks[t].session = s
    BY <1>3 DEF Probes, ProbeActive, ProbeTail, ProbeSubagents, ProbeFails, TargetRefused,
       TargetValid, GiveUp, Sends, Launch, BeforeSendPasses, BeforeSendRefuses, Prepare,
       SendFails, SendFailed, PromptAdmitted, SendSucceeds, ResponseLost, Running, TypeOK
  <2>2. ~Finish(t) /\ \A phase : Goto(t, phase) =>
          phase = "answer" /\ ticks'[t].item = i /\ ticks'[t].session = s
    BY <2>1 DEF Finish, Goto, InFlight, TypeOK, Tick
  <2>3. PromptAdmitted(t, s, i)
    BY <1>3, <2>2 DEF Probes, ProbeActive, ProbeTail, ProbeSubagents, ProbeFails, TargetRefused,
       TargetValid, GiveUp, Sends, Launch, BeforeSendPasses, BeforeSendRefuses, Prepare,
       SendFails, SendFailed, SendSucceeds, ResponseLost
  <2> QED
    BY <2>1, <2>2, <2>3 DEF PromptAdmitted
<1> QED
  BY <1>1, <1>2, <1>3, TickSteps

\* What is taken for sent was answered.
LEMMA AnswerStep ==
  ASSUME TypeOK, TrueInv, [Next]_vars, NEW t \in Ticks, InFlight(t)', ticks'[t].phase = "answer"
  PROVE  admitted'[ticks'[t].item] > 0
<1>1. CASE ticks'[t] = ticks[t] /\ InFlight(t)
  <2>1. ticks[t].item \in Ids /\ admitted[ticks[t].item] > 0
    BY <1>1 DEF InFlight, TypeOK, Tick, TrueInv
  <2>2. \/ admitted'[ticks[t].item] = admitted[ticks[t].item]
        \/ admitted'[ticks[t].item] = admitted[ticks[t].item] + 1
    BY <2>1, AdmittedSteps DEF TypeOK
  <2> QED
    BY <1>1, <2>1, <2>2 DEF TypeOK
<1>2. CASE /\ PromptAdmitted(t, ticks[t].session, ticks[t].item) /\ ticks[t] \in Tick
           /\ ticks'[t].item = ticks[t].item
  BY <1>2 DEF PromptAdmitted, TypeOK, Tick
<1> QED
  BY <1>1, <1>2, AnswerAwaited

\* What leaves a queue other than as sent was not admitted, or is known lost, or
\* went with its deleted session.
LEMMA LeavesUnsent ==
  ASSUME OneTick \/ ~Happens("delete"), NoRefusalMeanwhile, RoomLeft, TypeOK, OneSendPerSession, DeliveryInv,
         GoneInv, [Next]_vars, ~Delivers, NEW s \in Sessions, NEW i \in queues[s], i \notin queues'[s]
  PROVE  admitted[i] = 0 \/ i \in lost \/ (turn[s] = "gone" /\ DropDeletedSession(s))
<1> SUFFICES ASSUME NEW u \in Ticks, InFlight(u), ticks[u].phase = "answer", ticks[u].item = i
             PROVE  turn[s] = "gone" /\ DropDeletedSession(s)
  BY DEF DeliveryInv, NotYetAdmitted
<1>1. ticks[u].session = s /\ sending[s] = i /\ i \in Ids /\ i # NoId
  BY DEF DeliveryInv, IdsUsedOnce, OneSendPerSession, TypeOK, Ids, NoId
<1>3. ASSUME DeliverEvent, Head(events) = [type |-> "deleted", session |-> s]
      PROVE  turn[s] = "gone" /\ DropDeletedSession(s)
  <2>1. turn[s] = "gone"
    BY <1>3, DeliverTakes DEF GoneInv
  <2>2. DropDeletedSession(s) \/ UNCHANGED queues
    BY <1>3 DEF DeliverEvent, ProcessPayload, queueVars
  <2> QED
    BY <2>1, <2>2
<1>4. ASSUME NEW t \in Ticks, BeforeSendRefuses(t, s, i) PROVE FALSE
  <2>1. InFlight(t) /\ ticks[t].session = s /\ ticks[t].phase = "before"
    BY <1>4 DEF BeforeSendRefuses, Running, InFlight, FlightPhases
  <2>2. t = u
    BY <1>1, <2>1 DEF OneSendPerSession
  <2> QED
    BY <2>1, <2>2
<1>5. ASSUME NEW t \in Ticks, SendSucceeds(t, s, i) PROVE FALSE
  BY <1>1, <1>5 DEF Delivers
<1>6. ASSUME NEW t \in Ticks, TargetRefused(t, s, i) PROVE FALSE
  <2>1. turn[s] = "gone" /\ ~OneTick
    BY <1>1, <1>6, RefusedInFlight
  <2> QED
    BY <2>1 DEF GoneInv
<1> QED
  BY <1>1, <1>3, <1>4, <1>5, <1>6, FlightLeaves

\* How the reports of an item grow.
LEMMA ReportSteps ==
  ASSUME TypeOK, DeliveryInv, ResultInv, [Next]_vars, NEW i \in Ids
  PROVE  \/ reports'[i] = reports[i]
         \/ \E s \in Sessions, status \in Statuses :
              /\ i \in queues[s] \ queues'[s] /\ task[i] # NoTask
              /\ reports'[i] = Append(reports[i], status)
              /\ status = "sent" => Delivers
<1>1. \/ \E status \in Statuses : Report(Leaving, status) /\ (status = "sent" => Delivers)
      \/ UNCHANGED reports
  <2>1. ASSUME NEW s \in Sessions, NEW k \in Tasks \cup {NoTask}, Enqueue(s, k)
        PROVE  Report(Leaving, "cancelled")
    BY <2>1, EnqueueKeeps
  <2> QED
    BY <2>1, QueueSteps DEF Shrinks, Statuses
<1> QED
  BY <1>1 DEF Report, Leaving

LEMMA TrueInvStep ==
  ASSUME OneTick \/ ~Happens("delete"), NoRefusalMeanwhile, RoomLeft, TypeOK, OneSendPerSession, DeliveryInv,
         ResultInv, GoneInv, FlightQueued, TrueInv, [Next]_vars
  PROVE  TrueInv'
<1> DEFINE Deleted == \E s \in Sessions : turn[s] = "gone"
<1>0. Deleted => Deleted'
  BY StaysGone
<1>1. ASSUME NEW i \in Ids, task'[i] = NoTask \/ i > created' PROVE reports'[i] = <<>>
  <2>1. created \in Nat /\ created' \in Nat /\ created <= created' /\ \A s \in Sessions : queues[s] \subseteq 1 .. created
    <3>1. created' \in {created, created + 1}
      BY QueueSteps DEF Shrinks, Enqueue
    <3> QED
      BY <3>1 DEF TypeOK, DeliveryInv, IdsUsedOnce
  <2>2. task[i] = NoTask \/ i > created
    <3>1. CASE UNCHANGED <<created, task>>
      BY <1>1, <3>1
    <3>2. ASSUME NEW s \in Sessions, NEW k \in Tasks \cup {NoTask}, Enqueue(s, k)
          PROVE  task[i] = NoTask \/ i > created
      <4>1. created' = created + 1 /\ (i # created + 1 => task'[i] = task[i])
        BY <3>2 DEF Enqueue, TypeOK
      <4> QED
        BY <1>1, <2>1, <4>1 DEF Ids
    <3> QED
      BY <3>1, <3>2, QueueSteps DEF Shrinks
  <2>3. reports[i] = <<>> /\ (\A s \in Sessions : i \in queues[s] => task[i] = NoTask)
    BY <2>1, <2>2 DEF TrueInv, Ids
  <2> QED
    BY <2>3, ReportSteps
<1>2. ASSUME NEW i \in Ids, NEW n \in 1 .. Len(reports[i])
      PROVE  IF reports[i][n] = "sent" THEN admitted'[i] > 0
             ELSE admitted'[i] = 0 \/ i \in lost' \/ (reports[i][n] = "cancelled" /\ Deleted')
  <2>1. IF reports[i][n] = "sent" THEN admitted[i] > 0
        ELSE admitted[i] = 0 \/ i \in lost \/ (reports[i][n] = "cancelled" /\ Deleted)
    BY DEF TrueInv, ScheduledResultTrue
  <2>2. ASSUME NEW t \in Ticks, NEW s \in Sessions, PromptAdmitted(t, s, i) PROVE FALSE
    <3>1. InFlight(t) /\ ticks[t].session = s /\ ticks[t].item = i /\ ticks[t].phase = "prompt" /\ turn[s] # "gone"
      BY <2>2 DEF PromptAdmitted, Running, InFlight, FlightPhases
    <3>2. i \in queues[s] /\ i \in 1 .. created
      BY <3>1 DEF FlightQueued, DeliveryInv, IdsUsedOnce
    <3>3. reports[i] \in Seq(Statuses) /\ reports[i] # <<>>
      BY <1>2 DEF TypeOK
    <3>4. task[i] # NoTask
      BY <3>3 DEF TrueInv
    <3>5. Len(reports[i]) = 0
      BY <3>2, <3>4 DEF ResultInv, ScheduledResultOnce
    <3> QED
      BY <1>2, <3>5
  <2>3. admitted'[i] = admitted[i]
    BY <2>2, AdmittedSteps DEF TypeOK
  <2> HIDE DEF Deleted
  <2> QED
    BY <1>0, <2>1, <2>3, AdmittedSteps
<1>3. ASSUME NEW i \in Ids, NEW n \in 1 .. Len(reports'[i])
      PROVE  IF reports'[i][n] = "sent" THEN admitted'[i] > 0
             ELSE admitted'[i] = 0 \/ i \in lost' \/ (reports'[i][n] = "cancelled" /\ Deleted')
  <2>1. CASE reports'[i] = reports[i]
    BY <1>2, <1>3, <2>1
  <2>2. ASSUME NEW s \in Sessions, NEW status \in Statuses, i \in queues[s] \ queues'[s], task[i] # NoTask,
               reports'[i] = Append(reports[i], status), status = "sent" => Delivers
        PROVE  IF reports'[i][n] = "sent" THEN admitted'[i] > 0
               ELSE admitted'[i] = 0 \/ i \in lost' \/ (reports'[i][n] = "cancelled" /\ Deleted')
    <3>1. i \in 1 .. created /\ reports[i] \in Seq(Statuses)
      BY <2>2 DEF DeliveryInv, IdsUsedOnce, TypeOK
    <3>2. Len(reports[i]) = 0
      BY <2>2, <3>1 DEF ResultInv, ScheduledResultOnce
    <3>3. n = 1 /\ reports'[i][n] = status
      BY <1>3, <2>2, <3>1, <3>2
    <3>4. admitted'[i] = admitted[i] /\ lost \subseteq lost'
      <4>1. ASSUME NEW t \in Ticks, NEW r \in Sessions, NEW j \in Ids, PromptAdmitted(t, r, j) PROVE FALSE
        BY <2>2, <4>1 DEF PromptAdmitted, queueVars
      <4> QED
        BY <4>1, AdmittedSteps
    <3>5. CASE ~Delivers
      <4>1. CASE admitted[i] = 0 \/ i \in lost
        BY <2>2, <3>3, <3>4, <3>5, <4>1
      <4>2. CASE turn[s] = "gone" /\ DropDeletedSession(s)
        <5>1. reports'[i] = Append(reports[i], "cancelled")
          BY <2>2, <4>2 DEF DropDeletedSession, Report
        <5>2. reports'[i][n] = "cancelled"
          BY <3>1, <3>2, <3>3, <5>1
        <5> QED
          BY <1>0, <4>2, <5>2
      <4> QED
        BY <2>2, <3>5, <4>1, <4>2, LeavesUnsent
    <3>6. ASSUME NEW t \in Ticks, NEW r \in Sessions, NEW j \in Ids, SendSucceeds(t, r, j)
          PROVE  status = "sent" /\ admitted[i] > 0
      <4>1. DropFromQueue(r, j, "sent") /\ InFlight(t) /\ ticks[t].phase = "answer" /\ ticks[t].item = j
        BY <3>6 DEF SendSucceeds, Running, InFlight, FlightPhases
      <4>2. r = s /\ i = j
        BY <2>2, <4>1, DropTakesOut DEF TypeOK
      <4>3. Report(queues[s] \ (queues[s] \ {i}), "sent")
        BY <2>2, <4>1, <4>2 DEF DropFromQueue, SetQueueItems
      <4>4. Append(reports[i], status) = Append(reports[i], "sent")
        BY <2>2, <4>3 DEF Report
      <4>5. status = "sent"
        BY <3>1, <3>2, <4>4
      <4> QED
        BY <4>1, <4>2, <4>5 DEF TrueInv
    <3> QED
      BY <3>3, <3>4, <3>5, <3>6 DEF Delivers
  <2> QED
    BY <2>1, <2>2, ReportSteps
<1> QED
  BY <1>1, <1>3, AnswerStep DEF TrueInv, ScheduledResultTrue, InFlight

\* The scheduler is told "sent" of prompts that OpenCode admitted only, and
\* anything else of such that it never sees, whose answer was lost, or which are
\* cancelled with a deleted session: for any number of sessions, tasks and items,
\* as long as no queue is full and no other tick has the target refused.
THEOREM ScheduledResultTrueCorrect ==
  ASSUME NoRefusalMeanwhile, OneTick \/ ~Happens("delete")
  PROVE  Spec /\ []RoomLeft => []ScheduledResultTrue
<1>1. Init => TrueInv
  BY DEF Init, TrueInv, ScheduledResultTrue, InFlight
<1>2. /\ RoomLeft /\ TypeOK /\ OneSendPerSession /\ DeliveryInv /\ ResultInv /\ GoneInv /\ FlightQueued
      /\ TrueInv /\ [Next]_vars
      => TrueInv'
  BY TrueInvStep
<1>3. TrueInv => ScheduledResultTrue
  BY DEF TrueInv
<1> QED
  BY <1>1, <1>2, <1>3, TypeCorrect, OneSendPerSessionCorrect, DeliveryInvCorrect, ResultInvCorrect,
     GoneInvCorrect, FlightQueuedCorrect, PTL DEF Spec

-----------------------------------------------------------------------------
(* No queue is left alone *)

\* Edits that take the head away arm nothing, nor does a hold that ends by the
\* clock; a slow answer may come after the end of its turn.
HeadsStay == \A behaviour \in {"remove", "take", "takeAll", "reorder", "holdExpiry", "slow"} :
  ~Happens(behaviour)

Arming == {"idle", "aborted", "completed"}
ArmsAt(es, n, s) == es[n].session = s /\ es[n].type \in Arming

\* Queue s may be sent from, as far as its session and the user go.
Wants(s) == queues[s] # {} /\ turn[s] \in Quiet /\ s \notin holds /\ ~stopped

\* Tick t will send from queue s or arm it again: it is not outdated.
Useful(t, s) ==
  /\ ticks[t] # Idle /\ ticks[t].session = s
  /\ InFlight(t) \/ IsHead(s, ticks[t].item)

Attends(s) ==
  \/ s \in timers
  \/ \E n \in 1 .. Len(events) : ArmsAt(events, n, s)
  \/ \E t \in Ticks : Useful(t, s)

\* A busy event that is still under way disarms a queue, which the end of that
\* turn arms again.
BusyThenIdle ==
  \A n \in 1 .. Len(events) :
    events[n].type = "busy" /\ turn[events[n].session] \in Quiet =>
      \E m \in n + 1 .. Len(events) : ArmsAt(events, m, events[n].session)

\* A prompt that is answered has its turn running.
AnswerInTurn ==
  \A t \in Ticks : InFlight(t) /\ ticks[t].phase = "answer" => turn[ticks[t].session] \notin Quiet

AttendedInv == (\A s \in Sessions : Wants(s) => Attends(s)) /\ BusyThenIdle /\ AnswerInTurn

\* A turn becomes quiet by its end or an abort, both of which the hub tells.
LEMMA BecomesQuiet ==
  ASSUME TypeOK, [Next]_vars, NEW s \in Sessions, turn'[s] \in Quiet
  PROVE  \/ turn[s] = turn'[s]
         \/ Answered(s) /\ \E type \in Arming : Emit(type, s)
<1> SUFFICES ASSUME turn'[s] # turn[s] PROVE Answered(s) /\ \E type \in Arming : Emit(type, s)
  OBVIOUS
<1>1. ASSUME UserPrompt(s) \/ Unlisted(s) \/ SubagentReturns(s) \/ SessionDeleted(s) PROVE FALSE
  BY <1>1 DEF UserPrompt, Unlisted, SubagentReturns, SessionDeleted, SetTurn, TypeOK, Quiet
<1>2. ASSUME NEW t \in Ticks, NEW i \in Ids, PromptAdmitted(t, s, i) PROVE FALSE
  BY <1>2 DEF PromptAdmitted, TypeOK, Quiet, external
<1>3. CASE TurnEnds(s) \/ UserAborts(s)
  BY <1>3 DEF TurnEnds, UserAborts, Arming
<1> QED
  BY <1>1, <1>2, <1>3, TurnSteps

\* What a step does to the events of a session: they stay, or arm its queue, or
\* the first of them is delivered.
LEMMA BusyThenIdleStep ==
  ASSUME TypeOK, BusyThenIdle, [Next]_vars
  PROVE  BusyThenIdle'
<1> SUFFICES ASSUME NEW n \in 1 .. Len(events'), events'[n].type = "busy", turn'[events'[n].session] \in Quiet
             PROVE  \E m \in n + 1 .. Len(events') : ArmsAt(events', m, events'[n].session)
  BY DEF BusyThenIdle, ArmsAt
<1>0. PICK s : s = events'[n].session /\ events'[n].type = "busy" /\ turn'[s] \in Quiet
  OBVIOUS
<1> SUFFICES \E m \in n + 1 .. Len(events') : ArmsAt(events', m, s)
  BY <1>0
<1>1. CASE UNCHANGED events
  <2>1. s \in Sessions
    <3>1. events[n] \in [type : EventTypes, session : Sessions]
      BY <1>1, ElementOfSeq DEF TypeOK
    <3> QED
      BY <1>0, <1>1, <3>1
  <2>2. turn[s] = turn'[s] \/ \E type \in Arming : Emit(type, s)
    BY <1>0, <2>1, BecomesQuiet
  <2>3. ASSUME NEW type \in Arming, Emit(type, s) PROVE FALSE
    <3>1. Len(events') = Len(events) + 1 /\ Len(events) \in Nat
      BY <2>1, <2>3, EmitAdds
    <3> QED
      BY <1>1, <3>1
  <2>4. turn[s] = turn'[s]
    BY <2>2, <2>3
  <2> QED
    BY <1>0, <1>1, <2>4 DEF BusyThenIdle
<1>2. CASE DeliverEvent
  <2>1. /\ Len(events) \in Nat /\ Len(events') = Len(events) - 1
        /\ \A m \in 1 .. Len(events') : events'[m] = events[m + 1]
    BY <1>2, DeliverTakes
  <2>2. turn' = turn
    BY <1>2 DEF DeliverEvent
  <2>3. n + 1 \in 1 .. Len(events) /\ events[n + 1] = events'[n]
    BY <2>1
  <2>4. PICK m \in n + 2 .. Len(events) : ArmsAt(events, m, s)
    BY <1>0, <2>2, <2>3 DEF BusyThenIdle
  <2>5. m - 1 \in n + 1 .. Len(events') /\ events'[m - 1] = events[m]
    BY <2>1, <2>4
  <2>6. ArmsAt(events', m - 1, s)
    BY <2>4, <2>5 DEF ArmsAt
  <2> QED
    BY <2>5, <2>6
<1>3. CASE Reconnect
  BY <1>3 DEF Reconnect
<1>4. ASSUME NEW r \in Sessions, NEW type \in EventTypes, Emit(type, r),
             type \notin Arming => turn'[r] \notin Quiet,
             \A q \in Sessions : q # r => turn'[q] = turn[q]
      PROVE  \E m \in n + 1 .. Len(events') : ArmsAt(events', m, s)
  <2>1. /\ Len(events') = Len(events) + 1 /\ Len(events) \in Nat
        /\ events'[Len(events) + 1] = [type |-> type, session |-> r]
        /\ \A m \in 1 .. Len(events) : events'[m] = events[m]
    BY <1>4, EmitAdds
  <2>2. CASE s = r /\ type \in Arming
    <3>1. n # Len(events) + 1
      BY <1>0, <2>1, <2>2 DEF Arming
    <3>2. ArmsAt(events', Len(events) + 1, s)
      BY <2>1, <2>2 DEF ArmsAt
    <3> QED
      BY <2>1, <3>1, <3>2
  <2>3. CASE ~(s = r /\ type \in Arming)
    <3>1. n \in 1 .. Len(events)
      BY <1>0, <1>4, <2>1, <2>3
    <3>2. events[n] \in [type : EventTypes, session : Sessions] /\ events[n] = events'[n]
      BY <2>1, <3>1, ElementOfSeq DEF TypeOK
    <3>3. turn[s] = turn'[s] /\ events[n].session = s /\ events[n].type = "busy"
      BY <1>0, <1>4, <2>3, <3>2
    <3>4. PICK m \in n + 1 .. Len(events) : ArmsAt(events, m, s)
      BY <1>0, <3>1, <3>3 DEF BusyThenIdle
    <3>5. m \in n + 1 .. Len(events') /\ ArmsAt(events', m, s)
      BY <2>1, <3>4 DEF ArmsAt
    <3> QED
      BY <3>5
  <2> QED
    BY <2>2, <2>3
<1>5. ASSUME NEW r \in Sessions,
             \/ UserPrompt(r) \/ StepCompletes(r) \/ TurnEnds(r) \/ SubagentReturns(r)
             \/ UserAborts(r) \/ SessionDeleted(r)
      PROVE  \E m \in n + 1 .. Len(events') : ArmsAt(events', m, s)
  <2>1. PICK type \in EventTypes : /\ Emit(type, r)
                                   /\ type \notin Arming => turn'[r] \notin Quiet
    BY <1>5 DEF UserPrompt, StepCompletes, TurnEnds, SubagentReturns, UserAborts,
       SessionDeleted, EventTypes, Arming, SetTurn, TypeOK, Quiet
  <2>2. \A q \in Sessions : q # r => turn'[q] = turn[q]
    BY <1>5 DEF UserPrompt, StepCompletes, TurnEnds, SubagentReturns, UserAborts,
       SessionDeleted, SetTurn, TypeOK
  <2> QED
    BY <1>4, <2>1, <2>2
<1>6. ASSUME NEW t \in Ticks, NEW r \in Sessions, NEW i \in Ids, PromptAdmitted(t, r, i), Emit("busy", r)
      PROVE  \E m \in n + 1 .. Len(events') : ArmsAt(events', m, s)
  <2>1. turn' = [turn EXCEPT ![r] = "listed"]
    <3>1. Len(events') = Len(events) + 1 /\ Len(events) \in Nat
      BY <1>6, EmitAdds
    <3> QED
      BY <1>6, <3>1 DEF PromptAdmitted, external
  <2>2. turn'[r] \notin Quiet /\ \A q \in Sessions : q # r => turn'[q] = turn[q]
    BY <2>1 DEF TypeOK, Quiet
  <2> QED
    BY <1>4, <1>6, <2>2 DEF EventTypes
<1> QED
  BY <1>1, <1>2, <1>3, <1>5, <1>6, EventSteps

LEMMA AnswerInTurnStep ==
  ASSUME HeadsStay, TypeOK, AnswerInTurn, [Next]_vars
  PROVE  AnswerInTurn'
<1> SUFFICES ASSUME NEW t \in Ticks, InFlight(t)', ticks'[t].phase = "answer"
             PROVE  turn'[ticks'[t].session] \notin Quiet
  BY DEF AnswerInTurn, InFlight
<1>1. CASE ticks'[t] = ticks[t] /\ InFlight(t)
  <2> DEFINE s == ticks[t].session
  <2>1. s \in Sessions /\ ticks[t].item \in Ids /\ turn[s] \notin Quiet
    BY <1>1 DEF InFlight, TypeOK, Tick, AnswerInTurn
  <2>2. ~Answered(s)
    BY <1>1, <2>1 DEF HeadsStay, Answered, Running, InFlight
  <2> QED
    BY <1>1, <2>1, <2>2, BecomesQuiet
<1>2. CASE /\ PromptAdmitted(t, ticks[t].session, ticks[t].item) /\ ticks[t] \in Tick
           /\ ticks'[t].session = ticks[t].session
  BY <1>2 DEF PromptAdmitted, TypeOK, Tick, Quiet, external
<1> QED
  BY <1>1, <1>2, AnswerAwaited

\* Events come in, and none leaves.
EventsGrow == UNCHANGED events \/ \E r \in Sessions, type \in EventTypes : Emit(type, r)

\* But for deliveries and reconnects, what is to arm a queue still is.
LEMMA EventsKept ==
  ASSUME TypeOK, EventsGrow, NEW s \in Sessions, NEW n \in 1 .. Len(events), ArmsAt(events, n, s)
  PROVE  \E m \in 1 .. Len(events') : ArmsAt(events', m, s)
<1>1. ASSUME NEW r \in Sessions, NEW type, Emit(type, r) PROVE \E m \in 1 .. Len(events') : ArmsAt(events', m, s)
  <2>1. Len(events') = Len(events) + 1 /\ Len(events) \in Nat /\ events'[n] = events[n]
    BY <1>1, EmitAdds
  <2>2. n \in 1 .. Len(events') /\ ArmsAt(events', n, s)
    BY <2>1 DEF ArmsAt
  <2> QED
    BY <2>2
<1>2. CASE UNCHANGED events
  BY <1>2
<1> QED
  BY <1>1, <1>2 DEF EventsGrow

\* A queue that something looks after keeps it, while that goes on.
LEMMA AttendsKept ==
  ASSUME TypeOK, AttendedInv, EventsGrow, NEW s \in Sessions, Wants(s), s \in timers => s \in timers',
         \A t \in Ticks : Useful(t, s) => Useful(t, s)'
  PROVE  Attends(s)'
<1>1. CASE \E n \in 1 .. Len(events) : ArmsAt(events, n, s)
  <2>1. \E m \in 1 .. Len(events') : ArmsAt(events', m, s)
    BY <1>1, EventsKept
  <2> QED
    BY <2>1 DEF Attends, ArmsAt
<1>2. CASE s \in timers \/ \E t \in Ticks : Useful(t, s)
  BY <1>2 DEF Attends
<1> QED
  BY <1>1, <1>2 DEF AttendedInv, Attends

\* A tick that goes on stays useful.
LEMMA GotoUseful ==
  ASSUME TypeOK, NEW t \in Ticks, ticks[t] # Idle, NEW phase, Goto(t, phase),
         InFlight(t) => phase \in FlightPhases,
         UNCHANGED <<queues, position>>, NEW s \in Sessions, NEW u \in Ticks, Useful(u, s)
  PROVE  Useful(u, s)'
<1>1. CASE u # t
  <2>1. ticks'[u] = ticks[u]
    BY <1>1 DEF Goto, TypeOK
  <2> QED
    BY <2>1 DEF Useful, InFlight, IsHead
<1>2. CASE u = t
  <2>1. /\ ticks'[u].session = s /\ ticks'[u].item = ticks[u].item /\ ticks'[u].phase = phase
        /\ ticks'[u] # Idle
    BY <1>2 DEF Goto, TypeOK, Tick, Useful, Idle
  <2> QED
    BY <1>2, <2>1 DEF Useful, InFlight, IsHead
<1> QED
  BY <1>1, <1>2

\* A queue that a step leaves wanting was armed by it, is left to a tick, or had
\* something that looks after it and still has.
LEMMA AttendsStep ==
  ASSUME HeadsStay, TypeOK, TypeOK', OneSendPerSession', DeliveryInv, AttendedInv,
         [Next]_vars, NEW s \in Sessions, Wants(s)'
  PROVE  Attends(s)'
<1> DEFINE Unmoved == queues'[s] = queues[s] /\ \A i \in queues[s] : position'[i] = position[i]
<1>1. ASSUME s \in timers' PROVE Attends(s)'
  BY <1>1 DEF Attends
<1>2. ASSUME NEW t \in Ticks, Useful(t, s)' PROVE Attends(s)'
  BY <1>2 DEF Attends
<1>3. ASSUME sending'[s] # NoId PROVE Attends(s)'
  <2>1. PICK t \in Ticks : InFlight(t)' /\ ticks'[t].session = s
    BY <1>3 DEF OneSendPerSession
  <2> QED
    BY <1>2, <2>1 DEF Useful, InFlight
<1>4. ASSUME s \in holds' <=> s \in holds, UNCHANGED <<stopped, ticks, external>>,
             s \in timers => s \in timers', Unmoved
      PROVE  Attends(s)'
  <2>1. Wants(s) /\ EventsGrow /\ \A t \in Ticks : Useful(t, s) => Useful(t, s)'
    BY <1>4 DEF Wants, Useful, InFlight, IsHead, EventsGrow, external
  <2> QED
    BY <1>4, <2>1, AttendsKept
<1>5. CASE Mutations
  <2>1. ASSUME NEW r \in Sessions, NEW k \in Tasks \cup {NoTask}, Enqueue(r, k) PROVE Attends(s)'
    <3>1. CASE r = s
      BY <1>1, <2>1, <3>1 DEF Enqueue, Wants
    <3>2. CASE r # s
      <4>1. s \notin Evicted(r) /\ queues'[s] = queues[s]
        BY <2>1, <3>2 DEF Enqueue, Wants
      <4>2. \A i \in queues[s] : i \in Ids /\ i # created + 1
        BY DEF DeliveryInv, IdsUsedOnce, TypeOK
      <4>3. Unmoved
        BY <2>1, <4>1, <4>2 DEF Enqueue, TypeOK
      <4> QED
        BY <1>4, <2>1, <4>1, <4>3 DEF Enqueue
    <3> QED
      BY <3>1, <3>2
  <2>2. ASSUME NEW r \in Sessions, Clear(r) PROVE Attends(s)'
    <3>1. CASE r = s
      <4>1. queues'[s] # {} /\ queues'[s] \subseteq {sending[s]} /\ sending[s] \in queues[s] /\ UNCHANGED sending
        BY <2>2, <3>1 DEF Clear, Edit, SetQueueItems, Wants, TypeOK
      <4>2. sending'[s] # NoId
        BY <4>1 DEF TypeOK, Ids, NoId
      <4> QED
        BY <1>3, <4>2
    <3>2. CASE r # s
      BY <1>4, <2>2, <3>2 DEF Clear, Edit, SetQueueItems, Disarm, TypeOK
    <3> QED
      BY <3>1, <3>2
  <2>3. ASSUME NEW k \in Tasks, CancelScheduledTask(k) PROVE Attends(s)'
    <3>1. CASE s \in Affected(k)
      BY <1>1, <2>3, <3>1 DEF CancelScheduledTask, ArmAll, Wants
    <3>2. CASE s \notin Affected(k)
      <4>1. Unmoved
        BY <2>3, <3>2 DEF CancelScheduledTask, Affected
      <4> QED
        BY <1>4, <2>3, <4>1 DEF CancelScheduledTask, ArmAll
    <3> QED
      BY <3>1, <3>2
  <2>4. ASSUME NEW r \in Sessions, SetHold(r) PROVE Attends(s)'
    <3>1. r # s
      BY <2>4 DEF SetHold, Wants
    <3> QED
      BY <1>4, <2>4, <3>1 DEF SetHold, Disarm, queueVars
  <2>5. ASSUME NEW r \in Sessions, ReleaseHold(r) PROVE Attends(s)'
    <3>1. CASE r = s
      BY <1>1, <2>5, <3>1 DEF ReleaseHold, Arm, Wants
    <3>2. CASE r # s
      BY <1>4, <2>5, <3>2 DEF ReleaseHold, Arm, queueVars
    <3> QED
      BY <3>1, <3>2
  <2>6. CASE Stop
    BY <2>6 DEF Stop, Wants
  <2> QED
    BY <1>5, <2>1, <2>2, <2>3, <2>4, <2>5, <2>6 DEF Mutations, HeadsStay, TakeAll, Remove, Take, Reorder
<1>6. CASE Clocks
  <2>1. ASSUME NEW r \in Sessions, TimerIgnored(r) PROVE Attends(s)'
    <3>1. CASE r = s
      <4>1. sending'[s] # NoId
        BY <2>1, <3>1 DEF TimerIgnored, Refused, Wants, queueVars
      <4> QED
        BY <1>3, <4>1
    <3>2. CASE r # s
      BY <1>4, <2>1, <3>2 DEF TimerIgnored, Disarm, queueVars
    <3> QED
      BY <3>1, <3>2
  <2>2. ASSUME NEW r \in Sessions, AbortWindowEnds(r) \/ BackoffEnds(r) PROVE Attends(s)'
    BY <1>4, <2>2 DEF AbortWindowEnds, BackoffEnds, queueVars
  <2>3. ASSUME NEW r \in Sessions, HoldExpires(r) PROVE FALSE
    BY <2>3 DEF HoldExpires, HeadsStay
  <2> QED
    BY <1>6, <2>1, <2>2, <2>3 DEF Clocks
<1>7. CASE UNCHANGED vars
  BY <1>4, <1>7 DEF vars, queueVars, loopVars
<1>8. CASE OpenCode
  <2>1. UNCHANGED <<queueVars, loopVars>> /\ EventsGrow
    <3>1. ASSUME NEW r \in Sessions,
                 \/ UserPrompt(r) \/ StepCompletes(r) \/ Unlisted(r) \/ TurnEnds(r)
                 \/ SubagentReturns(r) \/ UserAborts(r) \/ SessionDeleted(r)
          PROVE  UNCHANGED <<queueVars, loopVars>> /\ EventsGrow
      BY <3>1 DEF UserPrompt, StepCompletes, Unlisted, TurnEnds, SubagentReturns, UserAborts,
         SessionDeleted, Outside, EventsGrow, EventTypes
    <3> QED
      BY <1>8, <3>1 DEF OpenCode
  <2>2. CASE turn[s] = turn'[s]
    <3>1. Wants(s) /\ \A t \in Ticks : Useful(t, s) => Useful(t, s)'
      BY <2>1, <2>2 DEF Wants, Useful, InFlight, IsHead, queueVars, loopVars
    <3> QED
      BY <2>1, <3>1, AttendsKept DEF loopVars
  <2>3. ASSUME NEW type \in Arming, Emit(type, s) PROVE Attends(s)'
    <3>1. Len(events') = Len(events) + 1 /\ Len(events) \in Nat
          /\ events'[Len(events) + 1] = [type |-> type, session |-> s]
      BY <2>3, EmitAdds
    <3>2. Len(events') \in 1 .. Len(events') /\ events'[Len(events')].session = s
          /\ events'[Len(events')].type \in Arming
      BY <2>3, <3>1
    <3> QED
      BY <3>2 DEF Attends, ArmsAt
  <2> QED
    BY <2>2, <2>3, BecomesQuiet DEF Wants
<1>9. CASE Reconnect
  BY <1>1, <1>9 DEF Reconnect, ArmAll, Queued, Wants, queueVars
<1>10. CASE DeliverEvent
  <2>1. /\ Len(events) \in Nat \ {0} /\ Len(events') = Len(events) - 1
        /\ events[1] \in [type : EventTypes, session : Sessions] /\ events[1] = Head(events)
        /\ \A n \in 1 .. Len(events') : events'[n] = events[n + 1]
    BY <1>10, DeliverTakes
  <2>2. UNCHANGED <<ticks, holds, stopped, turn, position>> /\ ~stopped
    BY <1>10 DEF DeliverEvent, ProcessPayload, DropDeletedSession, queueVars, Wants
  <2>3. ASSUME NEW n \in 2 .. Len(events), ArmsAt(events, n, s) PROVE Attends(s)'
    <3>1. n - 1 \in 1 .. Len(events') /\ events'[n - 1] = events[n]
      BY <2>1
    <3>2. events'[n - 1].session = s /\ events'[n - 1].type \in Arming
      BY <2>3, <3>1 DEF ArmsAt
    <3> QED
      BY <3>1, <3>2 DEF Attends, ArmsAt
  <2>4. CASE events[1].session = s
    <3>1. queues[s] # {}
      BY <1>10, <2>1, <2>4 DEF DeliverEvent, queueVars, Wants
    <3>2. ProcessPayload(events[1].type, s)
      BY <1>10, <2>1, <2>2, <2>4, <3>1 DEF DeliverEvent
    <3>3. CASE events[1].type = "busy"
      <4>1. turn[s] \in Quiet /\ 1 \in 1 .. Len(events)
        BY <2>1, <2>2 DEF Wants
      <4>2. PICK m \in 2 .. Len(events) : ArmsAt(events, m, s)
        BY <2>4, <3>3, <4>1 DEF AttendedInv, BusyThenIdle
      <4> QED
        BY <2>3, <4>2
    <3>4. CASE events[1].type # "busy"
      <4>1. ~DropDeletedSession(s)
        BY DEF DropDeletedSession, Wants, TypeOK
      <4>2. Arm(s)
        BY <3>2, <3>4, <4>1 DEF ProcessPayload
      <4> QED
        BY <1>1, <2>2, <4>2 DEF Arm, Wants
    <3> QED
      BY <3>3, <3>4
  <2>5. CASE events[1].session # s
    <3>1. queues'[s] = queues[s] /\ (s \in timers => s \in timers')
      BY <1>10, <2>1, <2>5 DEF DeliverEvent, ProcessPayload, DropDeletedSession, Disarm, Arm, queueVars, TypeOK
    <3>2. Wants(s) /\ \A t \in Ticks : Useful(t, s) => Useful(t, s)'
      BY <2>2, <3>1 DEF Wants, Useful, InFlight, IsHead
    <3>3. CASE \E n \in 1 .. Len(events) : ArmsAt(events, n, s)
      <4>1. PICK n \in 1 .. Len(events) : ArmsAt(events, n, s)
        BY <3>3
      <4>2. n \in 2 .. Len(events)
        BY <2>1, <2>5, <4>1 DEF ArmsAt
      <4> QED
        BY <2>3, <4>1, <4>2
    <3>4. CASE s \in timers \/ \E t \in Ticks : Useful(t, s)
      BY <1>1, <1>2, <3>1, <3>2, <3>4
    <3> QED
      BY <3>2, <3>3, <3>4 DEF AttendedInv, Attends
  <2> QED
    BY <2>4, <2>5
<1>11. ASSUME NEW t \in Ticks, NEW r \in Sessions, TickBegins(t, r) PROVE Attends(s)'
  <2>1. PICK head \in queues[r] : /\ IsHead(r, head)
                                  /\ ticks' = [ticks EXCEPT ![t] = [phase |-> "active", session |-> r, item |-> head]]
    BY <1>11 DEF TickBegins
  <2>2. UNCHANGED <<queues, position, holds, stopped, turn, events>> /\ ticks[t] = Idle /\ timers' = timers \ {r}
    BY <1>11 DEF TickBegins, Disarm, queueVars, external
  <2>3. ticks'[t] = [phase |-> "active", session |-> r, item |-> head] /\ \A u \in Ticks : u # t => ticks'[u] = ticks[u]
    BY <2>1 DEF TypeOK
  <2>4. CASE r = s
    <3>1. ticks'[t] # Idle
      BY <2>3 DEF Idle
    <3>2. Useful(t, s)'
      BY <2>1, <2>2, <2>3, <2>4, <3>1 DEF Useful, IsHead
    <3> QED
      BY <1>2, <3>2
  <2>5. CASE r # s
    <3>1. Wants(s) /\ \A u \in Ticks : Useful(u, s) => Useful(u, s)'
      BY <2>2, <2>3 DEF Wants, Useful, InFlight, IsHead
    <3> QED
      BY <2>2, <2>5, <3>1, AttendsKept DEF EventsGrow
  <2> QED
    BY <2>4, <2>5
<1>12. ASSUME NEW t \in Ticks, NEW r \in Sessions, NEW i \in Ids, Probes(t, r, i) \/ Sends(t, r, i), r # s
       PROVE  Attends(s)'
  <2>1. ticks[t] \in Tick /\ ticks[t].session = r /\ (Finish(t) \/ \E phase : Goto(t, phase))
    BY <1>12 DEF Probes, ProbeActive, ProbeTail, ProbeSubagents, ProbeFails, TargetRefused,
       TargetValid, GiveUp, Sends, Launch, BeforeSendPasses, BeforeSendRefuses, Prepare,
       SendFails, SendFailed, PromptAdmitted, SendSucceeds, ResponseLost, Running, TypeOK
  <2>2. \A u \in Ticks : u # t => ticks'[u] = ticks[u]
    BY <2>1 DEF Finish, Goto, TypeOK
  <2>3. ASSUME NEW j, NEW status, DropFromQueue(r, j, status) PROVE queues'[s] = queues[s]
    BY <1>12, <2>3, DropTakesOut DEF TypeOK
  <2>4. queues'[s] = queues[s] /\ position' = position
    BY <1>12, <2>3 DEF Probes, ProbeActive, ProbeTail, ProbeSubagents, ProbeFails, TargetRefused,
       TargetValid, GiveUp, Sends, Launch, BeforeSendPasses, BeforeSendRefuses, Prepare,
       SendFails, SendFailed, PromptAdmitted, SendSucceeds, ResponseLost, queueVars
  <2>5. (s \in timers => s \in timers') /\ UNCHANGED <<holds, stopped>>
    BY <1>12 DEF Probes, ProbeActive, ProbeTail, ProbeSubagents, ProbeFails, TargetRefused,
       TargetValid, GiveUp, Sends, Launch, BeforeSendPasses, BeforeSendRefuses, Prepare,
       SendFails, SendFailed, PromptAdmitted, SendSucceeds, ResponseLost, Arm
  <2>6. turn'[s] = turn[s] /\ EventsGrow
    <3>1. CASE PromptAdmitted(t, r, i)
      BY <1>12, <3>1 DEF PromptAdmitted, EventsGrow, EventTypes, TypeOK, external
    <3>2. CASE ~PromptAdmitted(t, r, i)
      <4>1. UNCHANGED external
        BY <1>12, <3>2 DEF Probes, ProbeActive, ProbeTail, ProbeSubagents, ProbeFails, TargetRefused,
           TargetValid, GiveUp, Sends, Launch, BeforeSendPasses, BeforeSendRefuses, Prepare,
           SendFails, SendFailed, SendSucceeds, ResponseLost, external
      <4> QED
        BY <4>1 DEF EventsGrow, external
    <3> QED
      BY <3>1, <3>2
  <2>7. Wants(s) /\ \A u \in Ticks : Useful(u, s) => Useful(u, s)'
    BY <1>12, <2>1, <2>2, <2>4, <2>5, <2>6 DEF Wants, Useful, InFlight, IsHead
  <2> QED
    BY <2>5, <2>6, <2>7, AttendsKept
<1>13. ASSUME NEW t \in Ticks, ticks[t] # Idle, NEW phase \in ProbePhases \cup FlightPhases, Goto(t, phase),
              InFlight(t) => phase \in FlightPhases,
              UNCHANGED <<queues, position, holds, stopped, turn>>, s \in timers => s \in timers', EventsGrow
       PROVE  Attends(s)'
  <2>1. Wants(s) /\ \A u \in Ticks : Useful(u, s) => Useful(u, s)'
    BY <1>13, GotoUseful DEF Wants
  <2> QED
    BY <1>13, <2>1, AttendsKept
<1>14. ASSUME Arm(s), UNCHANGED stopped PROVE Attends(s)'
  BY <1>1, <1>14 DEF Arm, Wants
<1>15. ASSUME NEW t \in Ticks, NEW i \in Ids, Probes(t, s, i) PROVE Attends(s)'
  <2>1. ticks[t] # Idle /\ ~InFlight(t) /\ ticks[t].session = s /\ ticks[t].item = i
    BY <1>15 DEF Probes, ProbeActive, ProbeTail, ProbeSubagents, ProbeFails, TargetRefused,
       TargetValid, GiveUp, Running, InFlight, FlightPhases
  <2>2. UNCHANGED <<holds, stopped, turn>> /\ EventsGrow
    BY <1>15 DEF Probes, ProbeActive, ProbeTail, ProbeSubagents, ProbeFails, TargetRefused,
       TargetValid, GiveUp, EventsGrow, external
  <2>3. turn[s] \in Quiet /\ turn[s] \notin {"listed", "streaming", "subagent"}
    BY <2>2 DEF Wants, Quiet
  <2>4. CASE ~GiveUp(t, s, i)
    <3>1. \/ Arm(s)
          \/ /\ \E phase \in ProbePhases : Goto(t, phase)
             /\ UNCHANGED <<queueVars, timers>>
      BY <1>15, <2>3, <2>4 DEF Probes, ProbeActive, ProbeTail, ProbeSubagents, ProbeFails, TargetRefused,
         TargetValid, ProbePhases
    <3> QED
      BY <1>13, <1>14, <2>1, <2>2, <3>1 DEF queueVars
  <2>5. CASE GiveUp(t, s, i)
    <3>1. CASE sending[s] # NoId
      BY <1>3, <2>5, <3>1 DEF GiveUp
    <3>2. CASE ~IsHead(s, i)
      <4>1. ~Useful(t, s)
        BY <2>1, <3>2 DEF Useful
      <4>2. Finish(t) /\ UNCHANGED <<queues, position, timers>>
        BY <2>5 DEF GiveUp, queueVars
      <4>3. \A u \in Ticks : u # t => ticks'[u] = ticks[u]
        BY <4>2 DEF Finish, TypeOK
      <4>4. Wants(s) /\ \A u \in Ticks : Useful(u, s) => Useful(u, s)'
        BY <2>2, <4>1, <4>2, <4>3 DEF Wants, Useful, InFlight, IsHead
      <4> QED
        BY <2>2, <4>2, <4>4, AttendsKept
    <3> QED
      BY <2>5, <3>1, <3>2 DEF GiveUp
  <2> QED
    BY <2>4, <2>5
<1>16. ASSUME NEW t \in Ticks, NEW i \in Ids, Sends(t, s, i) PROVE Attends(s)'
  <2>1. ticks[t] # Idle /\ ticks[t].session = s /\ ticks[t].item = i
    BY <1>16 DEF Sends, Launch, BeforeSendPasses, BeforeSendRefuses, Prepare,
       SendFails, PromptAdmitted, SendSucceeds, ResponseLost, Running
  <2>2. CASE Launch(t, s, i) \/ BeforeSendPasses(t, s, i) \/ Prepare(t, s, i)
    <3>1. /\ \E phase \in FlightPhases : Goto(t, phase)
          /\ UNCHANGED <<queues, position, holds, stopped, turn, timers, events>>
      BY <2>2 DEF Launch, BeforeSendPasses, Prepare, FlightPhases, queueVars, external
    <3> QED
      BY <1>13, <2>1, <3>1 DEF EventsGrow
  <2>3. CASE BeforeSendRefuses(t, s, i) \/ SendFails(t, s, i) \/ ResponseLost(t, s, i)
    BY <1>14, <2>3 DEF BeforeSendRefuses, SendFails, ResponseLost, SendFailed
  <2>4. CASE PromptAdmitted(t, s, i)
    BY <2>4 DEF PromptAdmitted, Wants, Quiet, TypeOK, external
  <2>5. CASE SendSucceeds(t, s, i)
    <3>1. InFlight(t) /\ ticks[t].phase = "answer" /\ turn' = turn
      BY <2>5 DEF SendSucceeds, Running, InFlight, FlightPhases, external
    <3> QED
      BY <2>1, <3>1 DEF AttendedInv, AnswerInTurn, Wants
  <2> QED
    BY <1>16, <2>2, <2>3, <2>4, <2>5 DEF Sends
<1> QED
  BY <1>5, <1>6, <1>7, <1>8, <1>9, <1>10, <1>11, <1>12, <1>15, <1>16 DEF Next, Hub, Loop

\* Of a session that may be sent to, no queue is forgotten: whatever order edits,
\* holds, overlapping ticks, lost prompts, hub events and reconnects come in.
THEOREM NoStrandedQueueCorrect ==
  ASSUME HeadsStay
  PROVE  Spec => []NoStrandedQueue
<1>1. Init => AttendedInv
  BY DEF Init, AttendedInv, Wants, Attends, BusyThenIdle, AnswerInTurn, InFlight
<1>2. /\ TypeOK /\ TypeOK' /\ OneSendPerSession' /\ DeliveryInv /\ AttendedInv /\ [Next]_vars
      => AttendedInv'
  <2> SUFFICES ASSUME TypeOK, TypeOK', OneSendPerSession', DeliveryInv, AttendedInv, [Next]_vars
               PROVE  AttendedInv'
    OBVIOUS
  <2>1. \A s \in Sessions : Wants(s)' => Attends(s)'
    BY AttendsStep
  <2>2. BusyThenIdle' /\ AnswerInTurn'
    BY BusyThenIdleStep, AnswerInTurnStep DEF AttendedInv
  <2> QED
    BY <2>1, <2>2 DEF AttendedInv
<1>3. TypeOK /\ AttendedInv => NoStrandedQueue
  <2> SUFFICES ASSUME TypeOK, AttendedInv, NEW s \in Sessions, Wants(s),
                      NEW t \in Ticks, Useful(t, s)
               PROVE  \E u \in Ticks, i \in Ids : Running(u, s, i, ProbePhases \cup FlightPhases)
    BY DEF AttendedInv, Attends, ArmsAt, Arming, NoStrandedQueue, Wants
  <2>1. Running(t, s, ticks[t].item, ProbePhases \cup FlightPhases) /\ ticks[t].item \in Ids
    BY DEF Useful, Running, TypeOK, Tick
  <2> QED
    BY <2>1
<1> QED
  BY <1>1, <1>2, <1>3, TypeCorrect, OneSendPerSessionCorrect, DeliveryInvCorrect, PTL DEF Spec

-----------------------------------------------------------------------------
(* No prompt goes into a running turn *)

\* Turns start by prompts of the queue only, and none of them is prompted again.
QueueOnly == \A behaviour \in {"userPrompt", "subagent", "responseLost", "reorder"} :
  ~Happens(behaviour)

\* No tick works on an item behind one that waits, or behind one in flight.
OrderedInv ==
  /\ \A t \in Ticks : ticks[t] # Idle =>
       ticks[t].item <= created /\ \A i \in queues[ticks[t].session] : ticks[t].item <= i
  /\ \A t, u \in Ticks : /\ ticks[t] # Idle /\ ~InFlight(t) /\ InFlight(u)
                         /\ ticks[t].session = ticks[u].session
                         => ticks[t].item <= ticks[u].item

\* Tick t will find at its end that its item is gone, or was claimed: the item
\* left, or has its prompt admitted.
Stale(t) ==
  \/ ticks[t].item \notin queues[ticks[t].session]
  \/ \E u \in Ticks : InFlight(u) /\ ticks[u].phase = "answer" /\ ticks[u].item = ticks[t].item

\* A tick that has seen its session idle finds it idle still, or is stale.
UnsteeredInv ==
  /\ \A s \in Sessions : turn[s] # "subagent"
  /\ \A t \in Ticks : ticks[t] # Idle =>
       /\ ticks[t].phase = "tail" /\ turn[ticks[t].session] = "listed" => Stale(t)
       /\ ticks[t].phase \in {"subagents", "ready"} =>
            turn[ticks[t].session] \in Quiet \cup {"gone"} \/ Stale(t)
       /\ ticks[t].phase \in {"before", "prepare", "prompt"} =>
            turn[ticks[t].session] \in Quiet \cup {"gone"}

\* A tick keeps its session and item, and does not come back from its flight.
LEMMA TickMoves ==
  ASSUME TypeOK, [Next]_vars, NEW t \in Ticks, ticks'[t] # Idle
  PROVE  \/ /\ ticks[t] # Idle /\ ticks'[t].session = ticks[t].session /\ ticks'[t].item = ticks[t].item
            /\ InFlight(t) => InFlight(t)'
         \/ \E s \in Sessions : \E head \in queues[s] :
              /\ TickBegins(t, s) /\ IsHead(s, head)
              /\ ticks' = [ticks EXCEPT ![t] = [phase |-> "active", session |-> s, item |-> head]]
<1>1. CASE ticks'[t] = ticks[t]
  BY <1>1 DEF InFlight
<1>2. ASSUME NEW s \in Sessions, TickBegins(t, s)
      PROVE  \E head \in queues[s] :
               /\ IsHead(s, head)
               /\ ticks' = [ticks EXCEPT ![t] = [phase |-> "active", session |-> s, item |-> head]]
  BY <1>2 DEF TickBegins
<1>3. ASSUME NEW s \in Sessions, NEW i \in Ids, Probes(t, s, i) \/ Sends(t, s, i)
      PROVE  /\ ticks[t] # Idle /\ ticks'[t].session = ticks[t].session /\ ticks'[t].item = ticks[t].item
             /\ InFlight(t) => InFlight(t)'
  <2>1. ticks[t] \in Tick
    BY <1>3 DEF Probes, ProbeActive, ProbeTail, ProbeSubagents, ProbeFails, TargetRefused,
       TargetValid, GiveUp, Sends, Launch, BeforeSendPasses, BeforeSendRefuses, Prepare,
       SendFails, SendFailed, PromptAdmitted, SendSucceeds, ResponseLost, Running, TypeOK
  <2>2. ~Finish(t)
    BY DEF Finish, TypeOK
  <2>3. \E phase : Goto(t, phase) /\ (InFlight(t) => phase \in FlightPhases)
    BY <1>3, <2>2 DEF Probes, ProbeActive, ProbeTail, ProbeSubagents, ProbeFails, TargetRefused,
       TargetValid, GiveUp, Sends, Launch, BeforeSendPasses, BeforeSendRefuses, Prepare,
       SendFails, SendFailed, PromptAdmitted, SendSucceeds, ResponseLost, Running, InFlight, FlightPhases
  <2>4. PICK phase : Goto(t, phase) /\ (InFlight(t) => phase \in FlightPhases)
    BY <2>3
  <2>5. ticks[t] # Idle
    BY <1>3 DEF Probes, ProbeActive, ProbeTail, ProbeSubagents, ProbeFails, TargetRefused,
       TargetValid, GiveUp, Sends, Launch, BeforeSendPasses, BeforeSendRefuses, Prepare,
       SendFails, SendFailed, PromptAdmitted, SendSucceeds, ResponseLost, Running
  <2>6. ticks'[t] = [ticks[t] EXCEPT !.phase = phase]
    BY <2>4 DEF Goto, TypeOK
  <2>7. ticks'[t].phase = phase /\ ticks'[t].session = ticks[t].session /\ ticks'[t].item = ticks[t].item
    BY <2>1, <2>6 DEF Tick
  <2> QED
    BY <2>4, <2>5, <2>7 DEF InFlight
<1> QED
  BY <1>1, <1>2, <1>3, TickSteps

\* What comes new to a queue is the item created last.
LEMMA QueueGrows ==
  ASSUME TypeOK, [Next]_vars
  PROVE  /\ created \in Nat /\ created' \in {created, created + 1}
         /\ \A s \in Sessions : \A i \in queues'[s] : i \in queues[s] \/ i = created + 1
<1>1. ASSUME NEW s \in Sessions, NEW k \in Tasks \cup {NoTask}, Enqueue(s, k)
      PROVE  /\ created' = created + 1
             /\ \A r \in Sessions : \A i \in queues'[r] : i \in queues[r] \/ i = created + 1
  BY <1>1 DEF Enqueue, Newest
<1>2. created \in Nat
  BY DEF TypeOK
<1>3. CASE Shrinks
  BY <1>2, <1>3 DEF Shrinks
<1> QED
  BY <1>1, <1>2, <1>3, QueueSteps

LEMMA OrderedStep ==
  ASSUME TypeOK, OneSendPerSession, DeliveryInv, OrderInv, OrderedInv, [Next]_vars
  PROVE  OrderedInv'
<1>1. ASSUME NEW t \in Ticks, ticks'[t] # Idle
      PROVE  ticks'[t].item <= created' /\ \A i \in queues'[ticks'[t].session] : ticks'[t].item <= i
  <2>1. CASE ticks[t] # Idle /\ ticks'[t].session = ticks[t].session /\ ticks'[t].item = ticks[t].item
    <3>1. ticks[t].item \in Nat /\ ticks[t].session \in Sessions
      BY <2>1 DEF TypeOK, Tick, Ids
    <3> QED
      BY <2>1, <3>1, QueueGrows DEF OrderedInv
  <2>2. ASSUME NEW s \in Sessions, NEW head \in queues[s], TickBegins(t, s), IsHead(s, head),
               ticks' = [ticks EXCEPT ![t] = [phase |-> "active", session |-> s, item |-> head]]
        PROVE  ticks'[t].item <= created' /\ \A i \in queues'[ticks'[t].session] : ticks'[t].item <= i
    <3>1. ticks'[t].session = s /\ ticks'[t].item = head
      BY <2>2 DEF TypeOK
    <3>2. UNCHANGED <<queues, created>> /\ head <= created
      BY <2>2 DEF TickBegins, queueVars, DeliveryInv, IdsUsedOnce
    <3>3. \A i \in queues[s] : head <= i
      BY <2>2 DEF IsHead, OrderInv, TypeOK
    <3> QED
      BY <3>1, <3>2, <3>3
  <2> QED
    BY <1>1, <2>1, <2>2, TickMoves
<1>2. ASSUME NEW t \in Ticks, NEW u \in Ticks, ticks'[t] # Idle, ~InFlight(t)', InFlight(u)',
             ticks'[t].session = ticks'[u].session
      PROVE  ticks'[t].item <= ticks'[u].item
  <2>1. ASSUME NEW s \in Sessions, NEW head \in queues[s], TickBegins(t, s),
               ticks' = [ticks EXCEPT ![t] = [phase |-> "active", session |-> s, item |-> head]]
        PROVE  FALSE
    <3>1. ticks'[t].session = s /\ t # u /\ ticks'[u] = ticks[u]
      BY <1>2, <2>1 DEF TypeOK
    <3>2. InFlight(u) /\ ticks[u].session = s /\ sending[s] = NoId
      BY <1>2, <2>1, <3>1 DEF TickBegins, Refused, InFlight
    <3>3. sending[s] \in Ids
      BY <3>2 DEF OneSendPerSession, InFlight, TypeOK, Tick
    <3> QED
      BY <3>2, <3>3 DEF Ids, NoId
  <2>2. CASE /\ ticks[t] # Idle /\ ticks'[t].session = ticks[t].session /\ ticks'[t].item = ticks[t].item
             /\ InFlight(t) => InFlight(t)'
    <3>1. CASE InFlight(u) /\ ticks'[u].session = ticks[u].session /\ ticks'[u].item = ticks[u].item
      BY <1>2, <2>2, <3>1 DEF OrderedInv
    <3>2. CASE Launch(u, ticks'[u].session, ticks'[u].item)
      <4>1. ticks'[u].item \in queues[ticks[t].session]
        BY <1>2, <2>2, <3>2 DEF Launch, IsHead
      <4> QED
        BY <2>2, <4>1 DEF OrderedInv
    <3> QED
      BY <1>2, <3>1, <3>2, FlightSteps
  <2> QED
    BY <1>2, <2>1, <2>2, TickMoves
<1> QED
  BY <1>1, <1>2 DEF OrderedInv, InFlight

\* What is stale stays stale: the item is not queued again, and once its answer
\* is in, it leaves.
LEMMA StaleKept ==
  ASSUME QueueOnly, TypeOK, DeliveryInv, OrderedInv, [Next]_vars,
         NEW t \in Ticks, ticks[t] # Idle, Stale(t),
         ticks'[t].session = ticks[t].session, ticks'[t].item = ticks[t].item
  PROVE  Stale(t)'
<1> DEFINE s == ticks[t].session
           i == ticks[t].item
<1>1. s \in Sessions /\ i \in Ids /\ i <= created
  BY DEF TypeOK, Tick, OrderedInv
<1>2. ASSUME i \notin queues[s] PROVE i \notin queues'[s]
  <2>1. i # created + 1
    BY <1>1, QueueGrows DEF Ids
  <2> QED
    BY <1>1, <1>2, <2>1, QueueGrows
<1>3. ASSUME NEW u \in Ticks, InFlight(u), ticks[u].phase = "answer", ticks[u].item = i
      PROVE  Stale(t)'
  <2>1. CASE ticks'[u] = ticks[u]
    BY <1>3, <2>1 DEF Stale, InFlight
  <2>2. ASSUME NEW r \in Sessions, TickBegins(u, r) PROVE FALSE
    BY <1>3, <2>2 DEF TickBegins, InFlight
  <2>3. ASSUME NEW r \in Sessions, NEW j \in Ids, Probes(u, r, j) \/ Sends(u, r, j)
        PROVE  i \notin queues'[s]
    <3>1. SendSucceeds(u, r, j) /\ j = i
      BY <1>3, <2>3 DEF Probes, ProbeActive, ProbeTail, ProbeSubagents, ProbeFails, TargetRefused,
         TargetValid, GiveUp, Sends, Launch, BeforeSendPasses, BeforeSendRefuses, Prepare,
         SendFails, SendFailed, PromptAdmitted, SendSucceeds, ResponseLost, Running, QueueOnly
    <3>2. queues' = [queues EXCEPT ![r] = @ \ {i}]
      BY <3>1, DropTakesOut DEF SendSucceeds
    <3>3. i \in queues[s] => s = r
      BY <1>1, <1>3, <3>1 DEF DeliveryInv, IdsUsedOnce, SendSucceeds, Running
    <3> QED
      BY <1>1, <3>2, <3>3 DEF TypeOK
  <2> QED
    BY <2>1, <2>2, <2>3, TickSteps DEF Stale
<1> QED
  BY <1>2, <1>3 DEF Stale

\* A tick that is not in the step, and whose session another tick starts a turn
\* of, is stale from then on.
LEMMA StaleByPrompt ==
  ASSUME QueueOnly, TypeOK, OneSendPerSession, DeliveryInv, OrderedInv, [Next]_vars,
         NEW t \in Ticks, ticks[t] # Idle, ticks'[t] = ticks[t],
         NEW u \in Ticks, NEW j \in Ids, PromptAdmitted(u, ticks[t].session, j)
  PROVE  ~InFlight(t) /\ Stale(t)'
<1> DEFINE s == ticks[t].session
<1>1. /\ InFlight(u) /\ ticks[u].phase = "prompt" /\ ticks[u].session = s /\ ticks[u].item = j
      /\ ticks[u] \in Tick
  BY DEF PromptAdmitted, Running, InFlight, FlightPhases, TypeOK
<1>2. ticks'[u].phase = "answer" /\ ticks'[u].item = j /\ ticks'[u] # Idle
  BY <1>1 DEF PromptAdmitted, Goto, TypeOK, Tick, Idle
<1>3. t # u
  BY <1>1, <1>2
<1>4. ~InFlight(t)
  BY <1>1, <1>3 DEF OneSendPerSession
<1>5. ticks[t].item <= j /\ ticks[t].item \in Nat /\ j \in Nat /\ s \in Sessions
  BY <1>1, <1>4 DEF OrderedInv, TypeOK, Tick, Ids
<1>6. CASE ticks[t].item = j
  BY <1>2, <1>4, <1>6 DEF Stale, InFlight, FlightPhases
<1>7. CASE ticks[t].item # j
  <2>1. InFlight(u) => \A i \in queues[s] : j <= i
    BY <1>1 DEF OrderedInv, InFlight
  <2>2. ticks[t].item \notin queues[s]
    BY <1>1, <1>5, <1>7, <2>1
  <2> QED
    BY <1>4, <2>2, StaleKept DEF Stale
<1> QED
  BY <1>6, <1>7

LEMMA UnsteeredStep ==
  ASSUME QueueOnly, TypeOK, OneSendPerSession, DeliveryInv, OrderedInv, UnsteeredInv, [Next]_vars
  PROVE  UnsteeredInv'
<1>1. ASSUME NEW s \in Sessions PROVE turn'[s] # "subagent"
  <2>1. turn[s] # "subagent"
    BY DEF UnsteeredInv
  <2>2. ASSUME UserPrompt(s) \/ Unlisted(s) \/ TurnEnds(s) \/ SubagentReturns(s) \/ UserAborts(s) \/ SessionDeleted(s)
        PROVE  turn'[s] # "subagent"
    BY <2>2 DEF UserPrompt, Unlisted, TurnEnds, SubagentReturns, UserAborts, SessionDeleted, SetTurn,
       TypeOK, QueueOnly
  <2>3. ASSUME NEW t \in Ticks, NEW i \in Ids, PromptAdmitted(t, s, i) PROVE turn'[s] # "subagent"
    BY <2>1, <2>3 DEF PromptAdmitted, TypeOK, external
  <2> QED
    BY <2>1, <2>2, <2>3, TurnSteps
<1>2. ASSUME NEW t \in Ticks, ticks'[t] # Idle
      PROVE  /\ ticks'[t].phase = "tail" /\ turn'[ticks'[t].session] = "listed" => Stale(t)'
             /\ ticks'[t].phase \in {"subagents", "ready"} =>
                  turn'[ticks'[t].session] \in Quiet \cup {"gone"} \/ Stale(t)'
             /\ ticks'[t].phase \in {"before", "prepare", "prompt"} =>
                  turn'[ticks'[t].session] \in Quiet \cup {"gone"}
  <2> DEFINE s == ticks[t].session
  <2>1. CASE ticks'[t] = ticks[t]
    <3>1. s \in Sessions
      BY <1>2, <2>1 DEF TypeOK, Tick
    <3>2. Stale(t) => Stale(t)'
      BY <1>2, <2>1, StaleKept
    <3>3. CASE turn'[s] = turn[s]
      BY <1>2, <2>1, <3>2, <3>3 DEF UnsteeredInv
    <3>4. CASE Unlisted(s)
      <4>1. turn[s] = "listed" /\ turn'[s] = "streaming"
        BY <3>1, <3>4 DEF Unlisted, SetTurn, TypeOK
      <4> QED
        BY <1>2, <2>1, <3>2, <4>1 DEF UnsteeredInv, Quiet
    <3>5. CASE TurnEnds(s) \/ UserAborts(s) \/ SessionDeleted(s)
      <4>1. turn'[s] \in {"idle", "gone"}
        BY <3>1, <3>5 DEF TurnEnds, UserAborts, SessionDeleted, SetTurn, TypeOK, QueueOnly
      <4> QED
        BY <2>1, <4>1 DEF Quiet
    <3>6. ASSUME UserPrompt(s) \/ SubagentReturns(s) PROVE FALSE
      BY <3>1, <3>6 DEF UserPrompt, SubagentReturns, QueueOnly, UnsteeredInv
    <3>7. ASSUME NEW u \in Ticks, NEW j \in Ids, PromptAdmitted(u, s, j)
          PROVE  Stale(t)' /\ ticks[t].phase \notin {"before", "prepare", "prompt"}
      BY <1>2, <2>1, <3>7, StaleByPrompt DEF InFlight, FlightPhases
    <3> QED
      BY <2>1, <3>1, <3>3, <3>4, <3>5, <3>6, <3>7, TurnSteps
  <2>2. ASSUME NEW r \in Sessions, TickBegins(t, r) PROVE ticks'[t].phase = "active"
    BY <2>2 DEF TickBegins, TypeOK
  <2>3. ASSUME NEW r \in Sessions, NEW i \in Ids, Probes(t, r, i) \/ Sends(t, r, i)
        PROVE  /\ ticks'[t].phase = "tail" /\ turn'[ticks'[t].session] = "listed" => Stale(t)'
               /\ ticks'[t].phase \in {"subagents", "ready"} =>
                    turn'[ticks'[t].session] \in Quiet \cup {"gone"} \/ Stale(t)'
               /\ ticks'[t].phase \in {"before", "prepare", "prompt"} =>
                    turn'[ticks'[t].session] \in Quiet \cup {"gone"}
    <3>1. ticks[t] # Idle /\ ticks[t] \in Tick /\ ticks[t].session = r /\ ticks[t].item = i
      BY <2>3 DEF Probes, ProbeActive, ProbeTail, ProbeSubagents, ProbeFails, TargetRefused,
         TargetValid, GiveUp, Sends, Launch, BeforeSendPasses, BeforeSendRefuses, Prepare,
         SendFails, SendFailed, PromptAdmitted, SendSucceeds, ResponseLost, Running, TypeOK
    <3>2. ~Finish(t)
      BY <1>2 DEF Finish, TypeOK
    <3>3. ASSUME NEW phase, Goto(t, phase)
          PROVE  ticks'[t].phase = phase /\ ticks'[t].session = r /\ ticks'[t].item = i
      BY <3>1, <3>3 DEF Goto, TypeOK, Tick
    <3>4. ticks'[t].session = r /\ ticks'[t].item = i
      BY <2>3, <3>2, <3>3 DEF Probes, ProbeActive, ProbeTail, ProbeSubagents, ProbeFails, TargetRefused,
         TargetValid, GiveUp, Sends, Launch, BeforeSendPasses, BeforeSendRefuses, Prepare,
         SendFails, SendFailed, PromptAdmitted, SendSucceeds, ResponseLost
    <3>5. Stale(t) => Stale(t)'
      BY <3>1, <3>4, StaleKept
    <3>6. turn[r] \in Turns /\ turn[r] # "subagent"
      BY DEF TypeOK, UnsteeredInv
    <3>7. CASE ProbeActive(t, r, i)
      <4>1. ticks'[t].phase = "tail" /\ turn[r] # "listed" /\ turn' = turn
        BY <3>2, <3>3, <3>7 DEF ProbeActive, external
      <4> QED
        BY <3>4, <4>1
    <3>8. CASE ProbeTail(t, r, i)
      <4>1. /\ ticks'[t].phase = "subagents" /\ turn' = turn /\ ticks[t].phase = "tail"
            /\ turn[r] \notin {"gone", "streaming"}
        BY <3>2, <3>3, <3>8 DEF ProbeTail, Running, external
      <4>2. turn[r] \in Quiet \/ Stale(t)
        BY <3>1, <3>6, <4>1 DEF UnsteeredInv, Turns, Quiet
      <4> QED
        BY <3>4, <3>5, <4>1, <4>2
    <3>9. CASE ProbeFails(t, r, i)
      <4>1. ticks'[t].phase = "validate"
        BY <3>2, <3>3, <3>9 DEF ProbeFails
      <4> QED
        BY <4>1
    <3>10. CASE ProbeSubagents(t, r, i)
      <4>1. ticks'[t].phase = "ready" /\ turn' = turn /\ ticks[t].phase = "subagents"
        BY <3>2, <3>3, <3>10 DEF ProbeSubagents, Running, external
      <4>2. turn[r] \in Quiet \cup {"gone"} \/ Stale(t)
        BY <3>1, <4>1 DEF UnsteeredInv
      <4> QED
        BY <3>4, <3>5, <4>1, <4>2
    <3>11. CASE Launch(t, r, i)
      <4>1. /\ ticks'[t].phase \in {"before", "prepare"} /\ turn' = turn /\ ticks[t].phase = "ready"
            /\ i \in queues[r] /\ sending[r] = NoId
        BY <3>3, <3>11 DEF Launch, IsHead, Running, external
      <4>2. ASSUME NEW u \in Ticks, InFlight(u), ticks[u].item = i PROVE FALSE
        <5>1. ticks[u].session = r
          BY <4>1, <4>2 DEF DeliveryInv, IdsUsedOnce
        <5>2. sending[r] = i
          BY <4>2, <5>1 DEF OneSendPerSession
        <5> QED
          BY <4>1, <5>2 DEF Ids, NoId
      <4>3. ~Stale(t)
        BY <3>1, <4>1, <4>2 DEF Stale
      <4>4. turn[r] \in Quiet \cup {"gone"}
        BY <3>1, <4>1, <4>3 DEF UnsteeredInv
      <4> QED
        BY <3>4, <4>1, <4>4
    <3>12. CASE BeforeSendPasses(t, r, i) \/ Prepare(t, r, i)
      <4>1. /\ ticks'[t].phase \in {"prepare", "prompt"} /\ turn' = turn
            /\ ticks[t].phase \in {"before", "prepare"}
        BY <3>3, <3>12 DEF BeforeSendPasses, Prepare, Running, external
      <4>2. turn[r] \in Quiet \cup {"gone"}
        BY <3>1, <4>1 DEF UnsteeredInv
      <4> QED
        BY <3>4, <4>1, <4>2
    <3>13. CASE PromptAdmitted(t, r, i)
      <4>1. ticks'[t].phase = "answer"
        BY <3>3, <3>13 DEF PromptAdmitted
      <4> QED
        BY <4>1
    <3> QED
      BY <2>3, <3>2, <3>7, <3>8, <3>9, <3>10, <3>11, <3>12, <3>13 DEF Probes, Sends, TargetRefused,
         TargetValid, GiveUp, BeforeSendRefuses, SendFails, SendFailed, SendSucceeds, ResponseLost
  <2> QED
    BY <1>2, <2>1, <2>2, <2>3, TickSteps
<1> QED
  BY <1>1, <1>2 DEF UnsteeredInv

\* A queued prompt starts the next turn and goes into no running one, however
\* ticks overlap: as long as the queue alone starts the turns of its session.
THEOREM NoSteeringCorrect ==
  ASSUME QueueOnly
  PROVE  Spec => NoSteering
<1>1. Init => OrderedInv /\ UnsteeredInv
  BY DEF Init, OrderedInv, UnsteeredInv, InFlight, Quiet
<1>2. /\ TypeOK /\ OneSendPerSession /\ DeliveryInv /\ OrderInv /\ OrderedInv /\ UnsteeredInv /\ [Next]_vars
      => OrderedInv' /\ UnsteeredInv'
  BY OrderedStep, UnsteeredStep
<1>3. TypeOK /\ UnsteeredInv /\ [Next]_vars =>
        \A t \in Ticks : Admits(t) => turn[ticks[t].session] \in Quiet
  <2> SUFFICES ASSUME TypeOK, UnsteeredInv, [Next]_vars, NEW t \in Ticks, Admits(t)
               PROVE  turn[ticks[t].session] \in Quiet
    OBVIOUS
  <2>1. turn[ticks[t].session] # "gone" /\ ticks[t] # Idle /\ ticks[t].phase = "prompt"
    BY AdmitSteps DEF PromptAdmitted, Admits
  <2> QED
    BY <2>1 DEF UnsteeredInv
<1>4. ~Happens("reorder")
  BY DEF QueueOnly
<1>5. Spec => []OrderInv
  BY <1>4, OrderInvCorrect
<1> QED
  BY <1>1, <1>2, <1>3, <1>5, TypeCorrect, OneSendPerSessionCorrect, DeliveryInvCorrect, PTL DEF Spec, NoSteering
=============================================================================
