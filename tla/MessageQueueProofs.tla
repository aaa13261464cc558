------------------------- MODULE MessageQueueProofs -------------------------
(***************************************************************************)
(* Theorems about MessageQueue, for any sessions, tasks, ticks and bounds:  *)
(* its types, one send per session at a time, no prompt sent twice, and     *)
(* that it implements QueueServer; then what the clients and the scheduler  *)
(* are told: every change of a queue is a new revision, the scheduler hears *)
(* once of each of its items, has one entry per task, nothing overtakes.    *)
(* Each invariant rests on the ones before it: the claims of the ticks on   *)
(* their types, deliveries on the claims.                                   *)
(***************************************************************************)
EXTENDS MessageQueue, FiniteSetTheorems, SequenceTheorems, TLAPS

-----------------------------------------------------------------------------
(* Types *)

\* Reporting the removal of scheduled items keeps the reports well typed.
LEMMA ReportType ==
  ASSUME TypeOK, NEW removed, NEW status \in Statuses, Report(removed, status)
  PROVE  reports' \in [Ids -> Seq(Statuses)]
BY DEF TypeOK, Report

\* An event that OpenCode emits keeps the stream of the hub well typed.
LEMMA EmitType ==
  ASSUME TypeOK, NEW type \in EventTypes, NEW s \in Sessions, Emit(type, s)
  PROVE  events' \in Seq([type : EventTypes, session : Sessions])
<1>1. [type |-> type, session |-> s] \in [type : EventTypes, session : Sessions]
  OBVIOUS
<1> QED
  BY <1>1 DEF TypeOK, Emit

\* A continuation that drops its item, from a queue that may be gone, leaves
\* queues, reports and remembered directories well typed.
LEMMA DropType ==
  ASSUME TypeOK, NEW s \in Sessions, NEW i, NEW status \in Statuses,
         DropFromQueue(s, i, status)
  PROVE  /\ queues' \in [Sessions -> SUBSET Ids]
         /\ reports' \in [Ids -> Seq(Statuses)]
         /\ directories' \subseteq Sessions
<1>1. CASE queues[s] = {}
  BY <1>1 DEF DropFromQueue, TypeOK
<1>2. CASE queues[s] # {}
  <2>1. SetQueueItems(s, queues[s] \ {i}, status)
    BY <1>2 DEF DropFromQueue
  <2> QED
    BY <2>1, ReportType DEF SetQueueItems, TypeOK
<1> QED
  BY <1>1, <1>2

\* Every reachable state of the queue runtime is well typed.
THEOREM TypeCorrect == Spec => []TypeOK
<1>1. Init => TypeOK
  <2> SUFFICES ASSUME Init PROVE TypeOK
    OBVIOUS
  <2> USE BoundsAssumption DEF Init
  <2>1. queues \in [Sessions -> SUBSET Ids]
    BY StoredAssumption
  <2>2. created \in Nat /\ revision \in Nat
    OBVIOUS
  <2>3. reports \in [Ids -> Seq(Statuses)] /\ events \in Seq([type : EventTypes, session : Sessions])
    OBVIOUS
  <2>4. turn \in [Sessions -> Turns]
    BY DEF Quiet, Turns
  <2>5. ticks \in [Ticks -> Tick \cup {Idle}]
    OBVIOUS
  <2> QED
    BY <2>1, <2>2, <2>3, <2>4, <2>5 DEF TypeOK, Ids, NoId
<1>2. TypeOK /\ [Next]_vars => TypeOK'
  <2> SUFFICES ASSUME TypeOK, [Next]_vars PROVE TypeOK'
    OBVIOUS
  <2> USE BoundsAssumption
  <2>1. ASSUME NEW s \in Sessions, NEW k \in Tasks \cup {NoTask}, Enqueue(s, k) PROVE TypeOK'
    <3>1. reports' \in [Ids -> Seq(Statuses)]
      BY <2>1, ReportType DEF Enqueue, Statuses
    <3>2. created' \in Ids /\ created' \in 0 .. MaxId
      BY <2>1 DEF TypeOK, Enqueue, Ids
    <3>3. queues' \in [Sessions -> SUBSET Ids]
      BY <2>1, <3>2 DEF TypeOK, Enqueue, Newest
    <3>4. task' \in [Ids -> Tasks \cup {NoTask}] /\ position' \in [Ids -> Ids]
      BY <2>1, <3>2 DEF TypeOK, Enqueue
    <3>5. directories' \subseteq Sessions /\ timers' \subseteq Sessions /\ revision' \in Nat
      BY <2>1 DEF TypeOK, Enqueue, Commit
    <3> QED
      BY <2>1, <3>1, <3>2, <3>3, <3>4, <3>5 DEF TypeOK, Enqueue, external
  <2>2. ASSUME NEW s \in Sessions, NEW items \in SUBSET queues[s], Edit(s, items), timers' \subseteq Sessions PROVE TypeOK'
    <3>1. reports' \in [Ids -> Seq(Statuses)]
      BY <2>2, ReportType DEF Edit, SetQueueItems, Statuses
    <3> QED
      BY <2>2, <3>1 DEF TypeOK, Edit, SetQueueItems, Commit, external
  <2>3. ASSUME NEW s \in Sessions, TakeAll(s) \/ Clear(s) PROVE TypeOK'
    BY <2>2, <2>3 DEF TakeAll, Clear, Disarm, TypeOK
  <2>4. ASSUME NEW s \in Sessions, NEW i \in Ids, Remove(s, i) \/ Take(s, i) PROVE TypeOK'
    BY <2>2, <2>4 DEF Remove, Take, TypeOK
  <2>5. ASSUME NEW s \in Sessions, Reorder(s) PROVE TypeOK'
    <3>1. PICK p \in [queues[s] -> {position[i] : i \in queues[s]}] :
            position' = [i \in Ids |-> IF i \in queues[s] THEN p[i] ELSE position[i]]
      BY <2>5 DEF Reorder, Permute
    <3>2. \A i \in queues[s] : p[i] \in Ids
      BY <3>1 DEF TypeOK
    <3>3. position' \in [Ids -> Ids]
      BY <3>1, <3>2 DEF TypeOK
    <3>4. Commit /\ UNCHANGED <<created, task, queues, directories, loopVars, history, external>>
      BY <2>5 DEF Reorder
    <3> QED
      BY <3>3, <3>4 DEF TypeOK, Commit, loopVars, history, external
  <2>6. ASSUME NEW k \in Tasks, CancelScheduledTask(k) PROVE TypeOK'
    <3>1. reports' \in [Ids -> Seq(Statuses)]
      BY <2>6, ReportType DEF CancelScheduledTask, Statuses
    <3>2. IsFiniteSet(Affected(k))
      BY FS_Subset DEF Affected
    <3>3. revision' \in Nat
      BY <2>6, <3>2, FS_CardinalityType DEF CancelScheduledTask, TypeOK
    <3> QED
      BY <2>6, <3>1, <3>3 DEF TypeOK, CancelScheduledTask, Affected, Cancelled, ArmAll, external
  <2>7. ASSUME NEW s \in Sessions, SetHold(s) \/ ReleaseHold(s) PROVE TypeOK'
    BY <2>7 DEF SetHold, ReleaseHold, Arm, Disarm, TypeOK, queueVars, history, external
  <2>8. ASSUME NEW s \in Sessions,
               TimerIgnored(s) \/ AbortWindowEnds(s) \/ BackoffEnds(s) \/ HoldExpires(s)
        PROVE  TypeOK'
    BY <2>8 DEF TimerIgnored, AbortWindowEnds, BackoffEnds, HoldExpires, Disarm, TypeOK, NoId, queueVars, history, external
  <2>9. ASSUME NEW t \in Ticks, NEW s \in Sessions, TickBegins(t, s) PROVE TypeOK'
    BY <2>9 DEF TickBegins, Disarm, TypeOK, NoId, Tick, ProbePhases, queueVars, history, external
  <2>10. ASSUME NEW t \in Ticks, NEW s \in Sessions, NEW i \in Ids, Probes(t, s, i) PROVE TypeOK'
    <3>1. ASSUME NEW phase \in ProbePhases \cup FlightPhases, ticks[t] # Idle, Goto(t, phase)
          PROVE  ticks' \in [Ticks -> Tick \cup {Idle}]
      BY <3>1 DEF Goto, TypeOK, Tick
    <3>2. Finish(t) => ticks' \in [Ticks -> Tick \cup {Idle}]
      BY DEF Finish, TypeOK
    <3>3. CASE ProbeActive(t, s, i)
      BY <3>1, <3>2, <3>3 DEF ProbeActive, Running, ProbePhases, TypeOK, queueVars, history, external
    <3>4. CASE ProbeTail(t, s, i)
      BY <3>1, <3>2, <3>4 DEF ProbeTail, Running, ProbePhases, TypeOK, queueVars, history, external
    <3>5. CASE ProbeSubagents(t, s, i)
      BY <3>1, <3>2, <3>5 DEF ProbeSubagents, Running, ProbePhases, Arm, TypeOK, queueVars, history, external
    <3>6. CASE ProbeFails(t, s, i)
      BY <3>1, <3>2, <3>6 DEF ProbeFails, Running, ProbePhases, Arm, TypeOK, queueVars, history, external
    <3>7. CASE TargetRefused(t, s, i)
      <4>1. /\ queues' \in [Sessions -> SUBSET Ids]
            /\ reports' \in [Ids -> Seq(Statuses)]
            /\ directories' \subseteq Sessions
        BY <3>7, DropType DEF TargetRefused, Statuses
      <4> QED
        BY <3>2, <3>7, <4>1 DEF TargetRefused, Commit, Arm, NoId, TypeOK, external
    <3>8. CASE TargetValid(t, s, i)
      BY <3>2, <3>8 DEF TargetValid, Arm, TypeOK, queueVars, history, external
    <3>9. CASE GiveUp(t, s, i)
      BY <3>2, <3>9 DEF GiveUp, TypeOK, queueVars, history, external
    <3> QED
      BY <2>10, <3>3, <3>4, <3>5, <3>6, <3>7, <3>8, <3>9 DEF Probes
  <2>11. ASSUME NEW t \in Ticks, NEW s \in Sessions, NEW i \in Ids, Sends(t, s, i) PROVE TypeOK'
    <3>1. ASSUME NEW phase \in ProbePhases \cup FlightPhases, ticks[t] # Idle, Goto(t, phase)
          PROVE  ticks' \in [Ticks -> Tick \cup {Idle}]
      BY <3>1 DEF Goto, TypeOK, Tick
    <3>2. Finish(t) => ticks' \in [Ticks -> Tick \cup {Idle}]
      BY DEF Finish, TypeOK
    <3>3. CASE Launch(t, s, i)
      BY <3>1, <3>3 DEF Launch, Running, FlightPhases, TypeOK, queueVars, history, external
    <3>4. CASE BeforeSendPasses(t, s, i)
      BY <3>1, <3>4 DEF BeforeSendPasses, Running, FlightPhases, TypeOK, queueVars, history, external
    <3>5. CASE BeforeSendRefuses(t, s, i)
      <4>1. /\ queues' \in [Sessions -> SUBSET Ids]
            /\ reports' \in [Ids -> Seq(Statuses)]
            /\ directories' \subseteq Sessions
        BY <3>5, DropType DEF BeforeSendRefuses, Statuses
      <4>2. /\ sending' \in [Sessions -> Ids \cup {NoId}]
            /\ failures' \in [Sessions -> Ids \cup {NoId}]
            /\ timers' \subseteq Sessions
        BY <3>5 DEF BeforeSendRefuses, Arm, TypeOK
      <4> QED
        BY <3>2, <3>5, <4>1, <4>2 DEF BeforeSendRefuses, Commit, TypeOK, external
    <3>6. CASE Prepare(t, s, i)
      BY <3>1, <3>6 DEF Prepare, Running, FlightPhases, TypeOK, queueVars, history, external
    <3>7. CASE SendFails(t, s, i)
      BY <3>2, <3>7 DEF SendFails, SendFailed, Arm, TypeOK, queueVars, history, external
    <3>8. CASE PromptAdmitted(t, s, i)
      <4>1. turn' \in [Sessions -> Turns]
        BY <3>8 DEF PromptAdmitted, TypeOK, Turns, external
      <4>2. events' \in Seq([type : EventTypes, session : Sessions])
        BY <3>8, EmitType DEF PromptAdmitted, TypeOK, EventTypes, external
      <4> QED
        BY <3>1, <3>8, <4>1, <4>2 DEF PromptAdmitted, Running, FlightPhases, TypeOK, queueVars
    <3>9. CASE SendSucceeds(t, s, i)
      <4>1. /\ queues' \in [Sessions -> SUBSET Ids]
            /\ reports' \in [Ids -> Seq(Statuses)]
            /\ directories' \subseteq Sessions
        BY <3>9, DropType DEF SendSucceeds, Statuses
      <4>2. /\ sending' \in [Sessions -> Ids \cup {NoId}]
            /\ failures' \in [Sessions -> Ids \cup {NoId}]
            /\ timers' \subseteq Sessions
        BY <3>9 DEF SendSucceeds, TypeOK
      <4> QED
        BY <3>2, <3>9, <4>1, <4>2 DEF SendSucceeds, Commit, TypeOK, external
    <3>10. CASE ResponseLost(t, s, i)
      BY <3>2, <3>10 DEF ResponseLost, SendFailed, Arm, TypeOK, queueVars, external
    <3> QED
      BY <2>11, <3>3, <3>4, <3>5, <3>6, <3>7, <3>8, <3>9, <3>10 DEF Sends
  <2>12. CASE DeliverEvent
    <3> DEFINE s == Head(events).session
               type == Head(events).type
    <3>1. s \in Sessions /\ events' \in Seq([type : EventTypes, session : Sessions])
      <4>1. events # <<>> /\ events' = Tail(events)
        BY <2>12 DEF DeliverEvent
      <4>2. events \in Seq([type : EventTypes, session : Sessions])
        BY DEF TypeOK
      <4>3. Head(events) \in [type : EventTypes, session : Sessions]
        BY <4>1, <4>2, HeadTailProperties
      <4> QED
        BY <4>1, <4>2, <4>3, HeadTailProperties
    <3>2. CASE stopped \/ queues[s] = {}
      BY <2>12, <3>1, <3>2 DEF DeliverEvent, TypeOK, queueVars
    <3>3. CASE ~stopped /\ queues[s] # {}
      <4>1. ProcessPayload(type, s)
        BY <2>12, <3>3 DEF DeliverEvent
      <4>2. CASE DropDeletedSession(s)
        <5>1. reports' \in [Ids -> Seq(Statuses)]
          BY <4>2, ReportType DEF DropDeletedSession, Statuses
        <5> QED
          BY <2>12, <3>1, <4>2, <5>1 DEF DeliverEvent, DropDeletedSession, Disarm, Commit, TypeOK
      <4>3. CASE ~DropDeletedSession(s)
        BY <2>12, <3>1, <4>1, <4>3 DEF DeliverEvent, ProcessPayload, Disarm, Arm, TypeOK, queueVars
      <4> QED
        BY <4>2, <4>3
    <3> QED
      BY <3>2, <3>3
  <2>13. CASE Reconnect
    BY <2>13 DEF Reconnect, ArmAll, Queued, TypeOK, queueVars, history
  <2>14. CASE OpenCode
    <3>1. PICK s \in Sessions :
            \/ UserPrompt(s) \/ StepCompletes(s) \/ Unlisted(s) \/ TurnEnds(s)
            \/ SubagentReturns(s) \/ UserAborts(s) \/ SessionDeleted(s)
      BY <2>14 DEF OpenCode
    <3>2. Outside
      BY <3>1 DEF UserPrompt, StepCompletes, Unlisted, TurnEnds, SubagentReturns, UserAborts, SessionDeleted
    <3>3. turn' \in [Sessions -> Turns]
      BY <3>1 DEF UserPrompt, StepCompletes, Unlisted, TurnEnds, SubagentReturns, UserAborts,
                  SessionDeleted, SetTurn, TypeOK, Turns
    <3>4. events' \in Seq([type : EventTypes, session : Sessions])
      BY <3>1, EmitType DEF UserPrompt, StepCompletes, Unlisted, TurnEnds, SubagentReturns,
                            UserAborts, SessionDeleted, TypeOK, EventTypes
    <3> QED
      BY <3>2, <3>3, <3>4 DEF Outside, TypeOK, queueVars, loopVars, history
  <2>16. CASE Stop
    BY <2>16 DEF Stop, TypeOK, queueVars, history, external
  <2>15. CASE UNCHANGED vars
    BY <2>15 DEF vars, TypeOK, queueVars, loopVars, history, external
  <2> QED
    BY <2>1, <2>3, <2>4, <2>5, <2>6, <2>7, <2>8, <2>9, <2>10, <2>11, <2>12, <2>13, <2>14, <2>15, <2>16
    DEF Next, Mutations, Clocks, Loop, Hub
<1> QED
  BY <1>1, <1>2, PTL DEF Spec

-----------------------------------------------------------------------------
(* One send per session *)

\* A step that touches neither claims nor ticks keeps the claims.
LEMMA SendKept ==
  ASSUME OneSendPerSession, UNCHANGED <<sending, ticks>>
  PROVE  OneSendPerSession'
BY DEF OneSendPerSession, InFlight

\* A tick that is not in flight may come, go or move on without a claim.
LEMMA SendKeptByProbe ==
  ASSUME TypeOK, OneSendPerSession, NEW t \in Ticks, ~InFlight(t), ~InFlight(t)',
         UNCHANGED sending, NEW x, ticks' = [ticks EXCEPT ![t] = x]
  PROVE  OneSendPerSession'
<1>1. \A u \in Ticks : InFlight(u)' <=> InFlight(u)
  BY DEF InFlight, TypeOK
<1>2. \A u \in Ticks : InFlight(u) => ticks'[u] = ticks[u]
  BY DEF TypeOK
<1> QED
  BY <1>1, <1>2 DEF OneSendPerSession

\* A tick past its claim that goes on to another phase of its send keeps the
\* claim of its session.
LEMMA SendKeptInFlight ==
  ASSUME TypeOK, OneSendPerSession, NEW t \in Ticks, InFlight(t),
         NEW phase \in FlightPhases, Goto(t, phase), UNCHANGED sending
  PROVE  OneSendPerSession'
<1>1. /\ ticks'[t] # Idle /\ ticks'[t].phase = phase
      /\ ticks'[t].session = ticks[t].session /\ ticks'[t].item = ticks[t].item
  BY DEF Goto, TypeOK, Tick, InFlight, Idle, FlightPhases, ProbePhases
<1>2. \A u \in Ticks : u # t => ticks'[u] = ticks[u]
  BY DEF Goto, TypeOK
<1>3. \A u \in Ticks : InFlight(u)' <=> InFlight(u)
  BY <1>1, <1>2 DEF InFlight
<1> QED
  BY <1>1, <1>2, <1>3 DEF OneSendPerSession

\* A tick that ends its send and releases the claim leaves no claim behind.
LEMMA SendKeptByEnd ==
  ASSUME TypeOK, OneSendPerSession, NEW t \in Ticks, NEW s \in Sessions, InFlight(t),
         ticks[t].session = s, Finish(t), sending' = [sending EXCEPT ![s] = NoId]
  PROVE  OneSendPerSession'
<1>1. /\ ~InFlight(t)'
      /\ \A u \in Ticks : u # t => ticks'[u] = ticks[u]
  BY DEF Finish, InFlight, TypeOK
<1>2. \A u \in Ticks : InFlight(u)' <=> InFlight(u) /\ u # t
  BY <1>1 DEF InFlight
<1>3. \A u \in Ticks : InFlight(u) /\ u # t => ticks[u].session # s
  BY DEF OneSendPerSession
<1>4. \A u \in Ticks : InFlight(u) => ticks[u].session \in Sessions
  BY DEF InFlight, TypeOK, Tick
<1>5. /\ sending'[s] = NoId
      /\ \A r \in Sessions : r # s => sending'[r] = sending[r]
  BY DEF TypeOK
<1> QED
  BY <1>1, <1>2, <1>3, <1>4, <1>5 DEF OneSendPerSession

\* A tick claims only a session that nobody has claimed, in the step that puts
\* it in flight.
LEMMA SendKeptByLaunch ==
  ASSUME TypeOK, OneSendPerSession, NEW t \in Ticks, NEW s \in Sessions, NEW i \in Ids,
         Launch(t, s, i)
  PROVE  OneSendPerSession'
<1>1. /\ ticks[t] # Idle /\ ticks[t].session = s /\ ticks[t].item = i
      /\ ticks[t].phase = "ready" /\ sending[s] = NoId
      /\ sending' = [sending EXCEPT ![s] = i]
  BY DEF Launch, Running
<1>2. PICK phase \in FlightPhases : ticks' = [ticks EXCEPT ![t].phase = phase]
  BY DEF Launch, Goto, FlightPhases
<1>3. /\ InFlight(t)' /\ ticks'[t].session = s /\ ticks'[t].item = i
  BY <1>1, <1>2 DEF InFlight, TypeOK, Tick, Idle, FlightPhases, ProbePhases
<1>4. \A u \in Ticks : u # t => ticks'[u] = ticks[u] /\ (InFlight(u)' <=> InFlight(u))
  BY <1>2 DEF InFlight, TypeOK
<1>5. i # NoId
  BY DEF Ids, NoId
<1>6. \A u \in Ticks : InFlight(u) => ticks[u].session \in Sessions /\ ticks[u].item # NoId
  BY DEF InFlight, TypeOK, Tick, Ids, NoId
<1>7. \A u \in Ticks : InFlight(u) => ticks[u].session # s
  BY <1>1, <1>6 DEF OneSendPerSession
<1>8. /\ sending'[s] = i
      /\ \A r \in Sessions : r # s => sending'[r] = sending[r]
  BY <1>1 DEF TypeOK
<1>9. ~InFlight(t)
  BY <1>1 DEF InFlight, FlightPhases
<1> QED
  BY <1>3, <1>4, <1>5, <1>6, <1>7, <1>8, <1>9 DEF OneSendPerSession

\* Whatever the interleaving of ticks, edits and events, a session has at most
\* one send in flight, the one its claim names, and no claim without a send.
THEOREM OneSendPerSessionCorrect == Spec => []OneSendPerSession
<1>1. Init => OneSendPerSession
  BY DEF Init, OneSendPerSession, InFlight, NoId, Ids
<1>2. TypeOK /\ OneSendPerSession /\ [Next]_vars => OneSendPerSession'
  <2> SUFFICES ASSUME TypeOK, OneSendPerSession, [Next]_vars PROVE OneSendPerSession'
    OBVIOUS
  <2>1. CASE Mutations
    BY <2>1, SendKept DEF Mutations, Enqueue, TakeAll, Clear, Reorder, SetHold, ReleaseHold,
       Remove, Take, CancelScheduledTask, Stop, Edit, loopVars
  <2>2. CASE Clocks \/ Hub
    BY <2>2, SendKept DEF Clocks, TimerIgnored, AbortWindowEnds, BackoffEnds, HoldExpires,
       Hub, DeliverEvent, Reconnect
  <2>3. CASE OpenCode \/ UNCHANGED vars
    BY <2>3, SendKept DEF OpenCode, UserPrompt, StepCompletes, Unlisted, TurnEnds,
       SubagentReturns, UserAborts, SessionDeleted, Outside, vars, loopVars
  <2>4. ASSUME NEW t \in Ticks, NEW s \in Sessions, TickBegins(t, s) PROVE OneSendPerSession'
    <3>1. PICK head \in queues[s] :
            ticks' = [ticks EXCEPT ![t] = [phase |-> "active", session |-> s, item |-> head]]
      BY <2>4 DEF TickBegins
    <3>2. ~InFlight(t) /\ ~InFlight(t)' /\ UNCHANGED sending
      BY <2>4, <3>1 DEF TickBegins, InFlight, FlightPhases, TypeOK
    <3> QED
      BY <3>1, <3>2, SendKeptByProbe
  <2>5. ASSUME NEW t \in Ticks, NEW s \in Sessions, NEW i \in Ids, Probes(t, s, i)
        PROVE  OneSendPerSession'
    <3>1. ~InFlight(t) /\ UNCHANGED sending
      BY <2>5 DEF Probes, ProbeActive, ProbeTail, ProbeSubagents, ProbeFails, TargetRefused,
         TargetValid, GiveUp, Running, InFlight, FlightPhases
    <3>2. Finish(t) \/ \E phase \in ProbePhases : Goto(t, phase)
      BY <2>5 DEF Probes, ProbeActive, ProbeTail, ProbeSubagents, ProbeFails, TargetRefused,
         TargetValid, GiveUp, ProbePhases
    <3>3. CASE Finish(t)
      <4>1. ~InFlight(t)'
        BY <3>3 DEF Finish, InFlight, TypeOK
      <4> QED
        BY <3>1, <3>3, <4>1, SendKeptByProbe DEF Finish
    <3>4. ASSUME NEW phase \in ProbePhases, Goto(t, phase) PROVE OneSendPerSession'
      <4>1. ticks[t] \in Tick
        BY <2>5 DEF Probes, ProbeActive, ProbeTail, ProbeSubagents, ProbeFails, TargetRefused,
           TargetValid, GiveUp, Running, TypeOK
      <4>2. ticks' = [ticks EXCEPT ![t] = [ticks[t] EXCEPT !.phase = phase]]
        BY <3>4 DEF Goto
      <4>3. ~InFlight(t)'
        BY <4>1, <4>2 DEF InFlight, TypeOK, Tick, ProbePhases, FlightPhases
      <4> QED
        BY <3>1, <4>2, <4>3, SendKeptByProbe
    <3> QED
      BY <3>2, <3>3, <3>4
  <2>6. ASSUME NEW t \in Ticks, NEW s \in Sessions, NEW i \in Ids, Sends(t, s, i)
        PROVE  OneSendPerSession'
    <3>1. CASE Launch(t, s, i)
      BY <3>1, SendKeptByLaunch
    <3>2. CASE BeforeSendPasses(t, s, i) \/ Prepare(t, s, i) \/ PromptAdmitted(t, s, i)
      <4>1. InFlight(t) /\ UNCHANGED sending /\ \E phase \in FlightPhases : Goto(t, phase)
        BY <3>2 DEF BeforeSendPasses, Prepare, PromptAdmitted, Running, InFlight, FlightPhases
      <4> QED
        BY <4>1, SendKeptInFlight
    <3>3. CASE \/ BeforeSendRefuses(t, s, i) \/ SendFails(t, s, i)
               \/ SendSucceeds(t, s, i) \/ ResponseLost(t, s, i)
      <4>1. /\ InFlight(t) /\ ticks[t].session = s /\ Finish(t)
            /\ sending' = [sending EXCEPT ![s] = NoId]
        BY <3>3 DEF BeforeSendRefuses, SendFails, SendSucceeds, ResponseLost, SendFailed,
           Running, InFlight, FlightPhases
      <4> QED
        BY <4>1, SendKeptByEnd
    <3> QED
      BY <2>6, <3>1, <3>2, <3>3 DEF Sends
  <2> QED
    BY <2>1, <2>2, <2>3, <2>4, <2>5, <2>6 DEF Next, Loop
<1> QED
  BY <1>1, <1>2, TypeCorrect, PTL DEF Spec

-----------------------------------------------------------------------------
(* No duplicate delivery *)

\* Queues that only shrink, around sends that stay as they are.
LEMMA DeliveryKept ==
  ASSUME TypeOK, DeliveryInv, UNCHANGED <<created, admitted, lost>>,
         \A s \in Sessions : queues'[s] \subseteq queues[s],
         \A u \in Ticks : (InFlight(u)' <=> InFlight(u)) /\ (InFlight(u) => ticks'[u] = ticks[u])
  PROVE  DeliveryInv'
<1>1. IdsUsedOnce'
  BY DEF DeliveryInv, IdsUsedOnce
<1>2. NotYetAdmitted'
  BY DEF DeliveryInv, NotYetAdmitted
<1>3. NoDuplicateDelivery'
  BY DEF DeliveryInv, NoDuplicateDelivery
<1> QED
  BY <1>1, <1>2, <1>3 DEF DeliveryInv

\* Steps that only take items out of queues keep the deliveries.
LEMMA DeliveryKeptTicks ==
  ASSUME TypeOK, DeliveryInv, UNCHANGED <<created, admitted, lost, ticks>>,
         \A s \in Sessions : queues'[s] \subseteq queues[s]
  PROVE  DeliveryInv'
BY DeliveryKept DEF InFlight

\* So do those of a tick that has not claimed anything.
LEMMA DeliveryKeptByProbe ==
  ASSUME TypeOK, DeliveryInv, UNCHANGED <<created, admitted, lost>>,
         \A s \in Sessions : queues'[s] \subseteq queues[s],
         NEW t \in Ticks, ~InFlight(t), ~InFlight(t)',
         NEW x, ticks' = [ticks EXCEPT ![t] = x]
  PROVE  DeliveryInv'
<1>1. \A u \in Ticks : (InFlight(u)' <=> InFlight(u)) /\ (InFlight(u) => ticks'[u] = ticks[u])
  BY DEF InFlight, TypeOK
<1> QED
  BY <1>1, DeliveryKept

\* An enqueue adds an item under a new id, which nobody has sent.
LEMMA DeliveryKeptByEnqueue ==
  ASSUME TypeOK, DeliveryInv, NEW s \in Sessions, NEW k, Enqueue(s, k)
  PROVE  DeliveryInv'
<1>1. created \in Nat /\ created' = created + 1 /\ UNCHANGED <<admitted, lost, ticks>>
  BY DEF Enqueue, TypeOK
<1>2. /\ queues'[s] \subseteq queues[s] \cup {created'}
      /\ \A r \in Sessions : r # s => queues'[r] \subseteq queues[r]
  BY DEF Enqueue, Newest
<1>3. \A u \in Ticks : InFlight(u)' <=> InFlight(u)
  BY <1>1 DEF InFlight
<1>4. \A u \in Ticks : InFlight(u) => ticks[u].item \in Nat
  BY DEF InFlight, TypeOK, Tick, Ids
<1>5. IdsUsedOnce'
  <2>1. \A r \in Sessions : queues'[r] \subseteq 1 .. created'
    BY <1>1, <1>2 DEF DeliveryInv, IdsUsedOnce
  <2>2. \A r, q \in Sessions : r # q => queues'[r] \cap queues'[q] = {}
    BY <1>1, <1>2 DEF DeliveryInv, IdsUsedOnce
  <2>3. \A u \in Ticks : InFlight(u) => ticks[u].item <= created
    BY DEF DeliveryInv, IdsUsedOnce
  <2>4. \A u \in Ticks : InFlight(u) => ticks[u].item <= created' /\ ticks[u].item # created'
    BY <1>1, <1>4, <2>3
  <2> QED
    BY <1>1, <1>2, <1>3, <2>1, <2>2, <2>4 DEF DeliveryInv, IdsUsedOnce
<1>6. NotYetAdmitted'
  <2>1. \A i \in Ids : i > created' => admitted'[i] = 0
    BY <1>1 DEF DeliveryInv, NotYetAdmitted, Ids
  <2>2. created' \in Ids => admitted[created'] = 0
    BY <1>1 DEF DeliveryInv, NotYetAdmitted, Ids
  <2>3. queues' \in [Sessions -> SUBSET Ids]
    <3>1. created' \in Ids
      BY BoundsAssumption DEF Enqueue, TypeOK, Ids
    <3> QED
      BY <3>1 DEF Enqueue, Newest, TypeOK
  <2> QED
    BY <1>1, <1>2, <1>3, <2>1, <2>2, <2>3 DEF DeliveryInv, NotYetAdmitted
<1>7. NoDuplicateDelivery'
  BY <1>1 DEF DeliveryInv, NoDuplicateDelivery
<1> QED
  BY <1>5, <1>6, <1>7 DEF DeliveryInv

\* The head a tick claims waits in this queue only and is in no other flight.
LEMMA DeliveryKeptByLaunch ==
  ASSUME TypeOK, OneSendPerSession, DeliveryInv,
         NEW t \in Ticks, NEW s \in Sessions, NEW i \in Ids, Launch(t, s, i)
  PROVE  DeliveryInv'
<1>1. /\ ticks[t] # Idle /\ ticks[t].session = s /\ ticks[t].item = i
      /\ ticks[t].phase = "ready" /\ sending[s] = NoId /\ i \in queues[s]
      /\ UNCHANGED <<queues, created, admitted, lost>>
  BY DEF Launch, Running, IsHead, queueVars, history
<1>2. PICK phase \in FlightPhases \ {"answer"} : ticks' = [ticks EXCEPT ![t].phase = phase]
  <2>1. "before" \in FlightPhases \ {"answer"} /\ "prepare" \in FlightPhases \ {"answer"}
    BY DEF FlightPhases
  <2>2. CASE task[i] # NoTask
    BY <2>1, <2>2 DEF Launch, Goto
  <2>3. CASE task[i] = NoTask
    BY <2>1, <2>3 DEF Launch, Goto
  <2> QED
    BY <2>2, <2>3
<1>3. /\ InFlight(t)' /\ ticks'[t].session = s /\ ticks'[t].item = i
      /\ ticks'[t].phase # "answer"
  BY <1>1, <1>2 DEF InFlight, TypeOK, Tick, Idle, FlightPhases, ProbePhases
<1>4. \A u \in Ticks : u # t => ticks'[u] = ticks[u] /\ (InFlight(u)' <=> InFlight(u))
  BY <1>2 DEF InFlight, TypeOK
<1>5. ~InFlight(t)
  BY <1>1 DEF InFlight, FlightPhases
<1>6. \A u \in Ticks : InFlight(u) => ticks[u].item # i
  <2> SUFFICES ASSUME NEW u \in Ticks, InFlight(u), ticks[u].item = i PROVE FALSE
    OBVIOUS
  <2>1. ticks[u].session = s
    BY <1>1 DEF DeliveryInv, IdsUsedOnce
  <2>2. sending[s] = i
    BY <2>1 DEF OneSendPerSession
  <2> QED
    BY <1>1, <2>2 DEF Ids, NoId
<1>7. admitted[i] = 0 \/ i \in lost
  BY <1>1, <1>6 DEF DeliveryInv, NotYetAdmitted
<1>8. i <= created /\ \A r \in Sessions : i \in queues[r] => r = s
  BY <1>1 DEF DeliveryInv, IdsUsedOnce, TypeOK
<1>9. IdsUsedOnce'
  BY <1>1, <1>3, <1>4, <1>5, <1>6, <1>8 DEF DeliveryInv, IdsUsedOnce
<1>10. NotYetAdmitted'
  BY <1>1, <1>3, <1>4, <1>5, <1>7 DEF DeliveryInv, NotYetAdmitted
<1> QED
  BY <1>1, <1>9, <1>10 DEF DeliveryInv, NoDuplicateDelivery

\* A send goes from one phase to the next; only the last admits the prompt.
LEMMA DeliveryKeptInFlight ==
  ASSUME TypeOK, DeliveryInv, NEW t \in Ticks, InFlight(t), ticks[t].phase # "answer",
         NEW phase \in FlightPhases, Goto(t, phase), UNCHANGED <<queues, created, lost>>,
         IF phase = "answer"
         THEN admitted' = [admitted EXCEPT ![ticks[t].item] = @ + 1]
         ELSE UNCHANGED admitted
  PROVE  DeliveryInv'
<1> DEFINE i == ticks[t].item
<1>1. /\ ticks'[t] # Idle /\ ticks'[t].phase = phase
      /\ ticks'[t].session = ticks[t].session /\ ticks'[t].item = i
  BY DEF Goto, TypeOK, Tick, InFlight, Idle, FlightPhases, ProbePhases
<1>2. \A u \in Ticks : u # t => ticks'[u] = ticks[u]
  BY DEF Goto, TypeOK
<1>3. \A u \in Ticks : InFlight(u)' <=> InFlight(u)
  BY <1>1, <1>2 DEF InFlight
<1>4. i \in Ids /\ i <= created /\ created \in Nat
  BY DEF InFlight, TypeOK, Tick, DeliveryInv, IdsUsedOnce
<1>5. admitted[i] = 0 \/ i \in lost
  BY DEF DeliveryInv, NotYetAdmitted
<1>6. \A u \in Ticks : InFlight(u) /\ u # t => ticks[u].item # i
  BY DEF DeliveryInv, IdsUsedOnce
<1>7. IdsUsedOnce'
  BY <1>1, <1>2, <1>3 DEF DeliveryInv, IdsUsedOnce
<1>8. CASE phase # "answer"
  <2>1. NotYetAdmitted'
    BY <1>1, <1>2, <1>3, <1>8 DEF DeliveryInv, NotYetAdmitted
  <2> QED
    BY <1>7, <1>8, <2>1 DEF DeliveryInv, NoDuplicateDelivery
<1>9. CASE phase = "answer"
  <2>1. /\ admitted'[i] = admitted[i] + 1
        /\ \A j \in Ids : j # i => admitted'[j] = admitted[j]
    BY <1>4, <1>9 DEF TypeOK
  <2>2. NoDuplicateDelivery'
    BY <1>5, <2>1 DEF DeliveryInv, NoDuplicateDelivery
  <2>3. \A j \in Ids : j > created' => admitted'[j] = 0
    BY <1>4, <2>1 DEF DeliveryInv, NotYetAdmitted, Ids
  <2>4. \A u \in Ticks : InFlight(u) => ticks[u].item \in Ids
    BY DEF InFlight, TypeOK, Tick
  <2>5. \A u \in Ticks : InFlight(u)' /\ ticks'[u].phase # "answer" =>
          admitted'[ticks'[u].item] = 0 \/ ticks'[u].item \in lost'
    BY <1>1, <1>2, <1>3, <1>6, <1>9, <2>1, <2>4 DEF DeliveryInv, NotYetAdmitted
  <2>6. \A s \in Sessions : \A j \in queues'[s] :
          \/ admitted'[j] = 0
          \/ j \in lost'
          \/ \E u \in Ticks : InFlight(u)' /\ ticks'[u].phase = "answer" /\ ticks'[u].item = j
    <3> SUFFICES ASSUME NEW s \in Sessions, NEW j \in queues[s]
                 PROVE  \/ admitted'[j] = 0
                        \/ j \in lost'
                        \/ \E u \in Ticks : InFlight(u)' /\ ticks'[u].phase = "answer" /\ ticks'[u].item = j
      OBVIOUS
    <3>1. CASE j = i
      BY <1>1, <1>3, <1>9, <3>1
    <3>2. CASE j # i
      BY <1>2, <1>3, <2>1, <3>2 DEF DeliveryInv, NotYetAdmitted, TypeOK
    <3> QED
      BY <3>1, <3>2
  <2>7. NotYetAdmitted'
    BY <2>3, <2>5, <2>6 DEF NotYetAdmitted
  <2> QED
    BY <1>7, <2>2, <2>7 DEF DeliveryInv
<1> QED
  BY <1>8, <1>9

\* A send ends: before the prompt was admitted, with the item out of its
\* queue, or with the answer lost.
LEMMA DeliveryKeptByEnd ==
  ASSUME TypeOK, DeliveryInv, NEW t \in Ticks, InFlight(t), Finish(t),
         UNCHANGED <<created, admitted>>, lost \subseteq lost',
         \A s \in Sessions : queues'[s] \subseteq queues[s],
         \/ ticks[t].phase # "answer"
         \/ \A s \in Sessions : ticks[t].item \notin queues'[s]
         \/ ticks[t].item \in lost'
  PROVE  DeliveryInv'
<1>1. /\ ~InFlight(t)'
      /\ \A u \in Ticks : u # t => ticks'[u] = ticks[u]
  BY DEF Finish, InFlight, TypeOK
<1>2. \A u \in Ticks : InFlight(u)' <=> InFlight(u) /\ u # t
  BY <1>1 DEF InFlight
<1>3. IdsUsedOnce'
  BY <1>1, <1>2 DEF DeliveryInv, IdsUsedOnce
<1>4. NotYetAdmitted'
  BY <1>1, <1>2 DEF DeliveryInv, NotYetAdmitted
<1> QED
  BY <1>3, <1>4 DEF DeliveryInv, NoDuplicateDelivery

\* Ids are used once, what waits was not admitted: however ticks, edits and
\* events interleave.
THEOREM DeliveryInvCorrect == Spec => []DeliveryInv
<1>1. Init => DeliveryInv
  <2> SUFFICES ASSUME Init PROVE DeliveryInv
    OBVIOUS
  <2>1. \A t \in Ticks : ~InFlight(t)
    BY DEF Init, InFlight
  <2>2. \A s \in Sessions : queues[s] \subseteq 1 .. created
    BY DEF Init
  <2>3. IdsUsedOnce
    BY <2>1, <2>2 DEF Init, IdsUsedOnce
  <2>4. NotYetAdmitted
    <3>1. \A s \in Sessions : queues[s] \subseteq Ids
      BY StoredAssumption DEF Init
    <3> QED
      BY <2>1, <3>1 DEF Init, NotYetAdmitted
  <2> QED
    BY <2>3, <2>4 DEF Init, DeliveryInv, NoDuplicateDelivery
<1>2. TypeOK /\ OneSendPerSession /\ DeliveryInv /\ [Next]_vars => DeliveryInv'
  <2> SUFFICES ASSUME TypeOK, OneSendPerSession, DeliveryInv, [Next]_vars PROVE DeliveryInv'
    OBVIOUS
  <2>1. ASSUME NEW s \in Sessions, NEW k \in Tasks \cup {NoTask}, Enqueue(s, k) PROVE DeliveryInv'
    BY <2>1, DeliveryKeptByEnqueue
  <2>2. ASSUME NEW s \in Sessions, NEW items \in SUBSET queues[s], Edit(s, items) PROVE DeliveryInv'
    BY <2>2, DeliveryKeptTicks DEF Edit, SetQueueItems, TypeOK
  <2>3. ASSUME NEW s \in Sessions,
               TakeAll(s) \/ Clear(s) \/ \E i \in Ids : Remove(s, i) \/ Take(s, i)
        PROVE  DeliveryInv'
    BY <2>2, <2>3 DEF TakeAll, Clear, Remove, Take
  <2>4. ASSUME NEW s \in Sessions, Reorder(s) \/ SetHold(s) \/ ReleaseHold(s)
        PROVE  DeliveryInv'
    BY <2>4, DeliveryKeptTicks DEF Reorder, SetHold, ReleaseHold, queueVars, loopVars, history
  <2>5. ASSUME NEW k \in Tasks, CancelScheduledTask(k) PROVE DeliveryInv'
    BY <2>5, DeliveryKeptTicks DEF CancelScheduledTask
  <2>6. CASE Clocks \/ OpenCode \/ Reconnect \/ Stop \/ UNCHANGED vars
    <3>1. UNCHANGED <<queues, created, admitted, lost, ticks>>
      BY <2>6 DEF Clocks, TimerIgnored, AbortWindowEnds, BackoffEnds, HoldExpires, Reconnect, Stop,
         OpenCode, UserPrompt, StepCompletes, Unlisted, TurnEnds, SubagentReturns, UserAborts,
         SessionDeleted, Outside, vars, queueVars, loopVars, history
    <3> QED
      BY <3>1, DeliveryKeptTicks
  <2>7. CASE DeliverEvent
    <3>1. UNCHANGED <<created, admitted, lost, ticks>>
      BY <2>7 DEF DeliverEvent, ProcessPayload, DropDeletedSession, queueVars
    <3>2. \A s \in Sessions : queues'[s] \subseteq queues[s]
      BY <2>7 DEF DeliverEvent, ProcessPayload, DropDeletedSession, queueVars, TypeOK
    <3> QED
      BY <3>1, <3>2, DeliveryKeptTicks
  <2>8. ASSUME NEW t \in Ticks, NEW s \in Sessions, TickBegins(t, s) PROVE DeliveryInv'
    <3>1. PICK head \in queues[s] :
            ticks' = [ticks EXCEPT ![t] = [phase |-> "active", session |-> s, item |-> head]]
      BY <2>8 DEF TickBegins
    <3>2. ~InFlight(t) /\ ~InFlight(t)' /\ UNCHANGED <<queues, created, admitted, lost>>
      BY <2>8, <3>1 DEF TickBegins, InFlight, FlightPhases, TypeOK, queueVars, history
    <3> QED
      BY <3>1, <3>2, DeliveryKeptByProbe
  <2>9. ASSUME NEW s \in Sessions, NEW i \in Ids,
               DropFromQueue(s, i, "failed") \/ DropFromQueue(s, i, "sent")
        PROVE  \A r \in Sessions : queues'[r] \subseteq queues[r] /\ (r = s => i \notin queues'[r])
    BY <2>9 DEF DropFromQueue, SetQueueItems, TypeOK
  <2>10. ASSUME NEW t \in Ticks, NEW s \in Sessions, NEW i \in Ids, Probes(t, s, i) PROVE DeliveryInv'
    <3>1. ~InFlight(t) /\ UNCHANGED <<created, admitted, lost>>
      BY <2>10 DEF Probes, ProbeActive, ProbeTail, ProbeSubagents, ProbeFails, TargetRefused,
         TargetValid, GiveUp, Running, InFlight, FlightPhases, queueVars, history
    <3>2. \A r \in Sessions : queues'[r] \subseteq queues[r]
      BY <2>9, <2>10 DEF Probes, ProbeActive, ProbeTail, ProbeSubagents, ProbeFails, TargetRefused,
         TargetValid, GiveUp, queueVars
    <3>3. ticks[t] \in Tick
      BY <2>10 DEF Probes, ProbeActive, ProbeTail, ProbeSubagents, ProbeFails, TargetRefused,
         TargetValid, GiveUp, Running, TypeOK
    <3>4. Finish(t) \/ \E phase \in ProbePhases : Goto(t, phase)
      BY <2>10 DEF Probes, ProbeActive, ProbeTail, ProbeSubagents, ProbeFails, TargetRefused,
         TargetValid, GiveUp, ProbePhases
    <3>5. CASE Finish(t)
      <4>1. ~InFlight(t)'
        BY <3>5 DEF Finish, InFlight, TypeOK
      <4> QED
        BY <3>1, <3>2, <3>5, <4>1, DeliveryKeptByProbe DEF Finish
    <3>6. ASSUME NEW phase \in ProbePhases, Goto(t, phase) PROVE DeliveryInv'
      <4>1. ticks' = [ticks EXCEPT ![t] = [ticks[t] EXCEPT !.phase = phase]]
        BY <3>6 DEF Goto
      <4>2. ~InFlight(t)'
        BY <3>3, <4>1 DEF InFlight, TypeOK, Tick, ProbePhases, FlightPhases
      <4> QED
        BY <3>1, <3>2, <4>1, <4>2, DeliveryKeptByProbe
    <3> QED
      BY <3>4, <3>5, <3>6
  <2>11. ASSUME NEW t \in Ticks, NEW s \in Sessions, NEW i \in Ids, Sends(t, s, i) PROVE DeliveryInv'
    <3>1. CASE Launch(t, s, i)
      BY <3>1, DeliveryKeptByLaunch
    <3>2. CASE BeforeSendPasses(t, s, i) \/ Prepare(t, s, i) \/ PromptAdmitted(t, s, i)
      <4>1. PICK phase \in FlightPhases :
              /\ Goto(t, phase)
              /\ IF phase = "answer" THEN admitted' = [admitted EXCEPT ![i] = @ + 1]
                 ELSE UNCHANGED admitted
        BY <3>2 DEF BeforeSendPasses, Prepare, PromptAdmitted, FlightPhases, history
      <4>2. /\ InFlight(t) /\ ticks[t].phase # "answer" /\ ticks[t].item = i
            /\ UNCHANGED <<queues, created, lost>>
        BY <3>2 DEF BeforeSendPasses, Prepare, PromptAdmitted, Running, InFlight, FlightPhases,
           queueVars, history
      <4> QED
        BY <4>1, <4>2, DeliveryKeptInFlight
    <3>3. CASE BeforeSendRefuses(t, s, i) \/ SendFails(t, s, i)
      <4>1. /\ InFlight(t) /\ ticks[t].phase # "answer" /\ Finish(t)
            /\ UNCHANGED <<created, admitted, lost>>
        BY <3>3 DEF BeforeSendRefuses, SendFails, SendFailed, Running, InFlight, FlightPhases,
           queueVars, history
      <4>2. \A r \in Sessions : queues'[r] \subseteq queues[r]
        BY <2>9, <3>3 DEF BeforeSendRefuses, SendFails, SendFailed, queueVars
      <4> QED
        BY <4>1, <4>2, DeliveryKeptByEnd
    <3>4. CASE SendSucceeds(t, s, i)
      <4>1. /\ InFlight(t) /\ ticks[t].session = s /\ ticks[t].item = i /\ Finish(t)
            /\ UNCHANGED <<created, admitted, lost>>
        BY <3>4 DEF SendSucceeds, Running, InFlight, FlightPhases
      <4>2. \A r \in Sessions : queues'[r] \subseteq queues[r] /\ (r = s => i \notin queues'[r])
        BY <2>9, <3>4 DEF SendSucceeds
      <4>3. \A r \in Sessions : i \notin queues'[r]
        BY <4>1, <4>2 DEF DeliveryInv, IdsUsedOnce
      <4> QED
        BY <4>1, <4>2, <4>3, DeliveryKeptByEnd
    <3>5. CASE ResponseLost(t, s, i)
      <4>1. /\ InFlight(t) /\ ticks[t].item = i /\ Finish(t)
            /\ UNCHANGED <<queues, created, admitted>> /\ lost' = lost \cup {i}
        BY <3>5 DEF ResponseLost, SendFailed, Running, InFlight, FlightPhases, queueVars
      <4> QED
        BY <4>1, DeliveryKeptByEnd
    <3> QED
      BY <2>11, <3>1, <3>2, <3>3, <3>4, <3>5 DEF Sends
  <2> QED
    BY <2>1, <2>3, <2>4, <2>5, <2>6, <2>7, <2>8, <2>10, <2>11 DEF Next, Mutations, Loop, Hub
<1> QED
  BY <1>1, <1>2, TypeCorrect, OneSendPerSessionCorrect, PTL DEF Spec

\* For every number of sessions, ticks and items: only a lost answer makes
\* OpenCode admit an item twice.
THEOREM NoDuplicateDeliveryCorrect == Spec => []NoDuplicateDelivery
<1>1. DeliveryInv => NoDuplicateDelivery
  BY DEF DeliveryInv
<1> QED
  BY <1>1, DeliveryInvCorrect, PTL

-----------------------------------------------------------------------------
(* Refinement of QueueServer *)

\* Whatever else an edit does, under a new revision it is a Mutate.
LEMMA EditServed ==
  ASSUME TypeOK, TypeOK', UNCHANGED sending, revision' > revision
  PROVE  Server!Next
BY DEF TypeOK, Server!Next, Server!Mutate

\* The end of a send releases a claim that the tick holds.
LEMMA EndServed ==
  ASSUME TypeOK, TypeOK', OneSendPerSession, NEW t \in Ticks, InFlight(t),
         NEW s \in Sessions, s = ticks[t].session,
         sending' = [sending EXCEPT ![s] = NoId],
         \/ UNCHANGED <<queues, revision>>
         \/ revision' > revision /\ queues' = [queues EXCEPT ![s] = @ \ {ticks[t].item}]
  PROVE  Server!Next
<1>1. sending[s] = ticks[t].item
  BY DEF OneSendPerSession
<1>2. ticks[t].item \in Ids
  BY DEF InFlight, TypeOK, Tick
<1>3. sending[s] # NoId
  BY <1>1, <1>2 DEF Ids, NoId
<1>4. CASE UNCHANGED <<queues, revision>>
  <2>1. Server!Release(s)
    BY <1>3, <1>4 DEF Server!Release
  <2> QED
    BY <2>1 DEF Server!Next
<1>5. CASE revision' > revision /\ queues' = [queues EXCEPT ![s] = @ \ {ticks[t].item}]
  <2>1. Server!Settle(s)
    BY <1>1, <1>3, <1>5 DEF Server!Settle, TypeOK
  <2> QED
    BY <2>1 DEF Server!Next
<1> QED
  BY <1>4, <1>5

\* Dropping an item takes it out of the queue, gone or not.
LEMMA DropTakesOut ==
  ASSUME TypeOK, NEW s \in Sessions, NEW i, NEW status, DropFromQueue(s, i, status)
  PROVE  queues' = [queues EXCEPT ![s] = @ \ {i}]
BY DEF DropFromQueue, SetQueueItems, TypeOK

\* Every step of the runtime is a step of the server its clients rely on:
\* each change of a queue is a new revision, one item per session is in
\* flight, from its queue, and a send that ends takes out that item only.
THEOREM QueueServedCorrect == Spec => QueueServed
<1>1. Init => Server!Init
  <2> SUFFICES ASSUME Init PROVE Server!Init
    OBVIOUS
  <2>1. queues \in [Sessions -> SUBSET Ids]
    BY StoredAssumption DEF Init
  <2>2. revision \in Nat
    BY BoundsAssumption DEF Init
  <2> QED
    BY <2>1, <2>2 DEF Init, Server!Init
<1>2. TypeOK /\ TypeOK' /\ OneSendPerSession /\ [Next]_vars => [Server!Next]_(Server!serverVars)
  <2> SUFFICES ASSUME TypeOK, TypeOK', OneSendPerSession, [Next]_vars
               PROVE  Server!Next \/ UNCHANGED <<queues, revision, sending>>
    BY DEF Server!serverVars
  <2>1. CASE Mutations
    <3>1. ASSUME NEW s \in Sessions, NEW k \in Tasks \cup {NoTask}, Enqueue(s, k)
          PROVE  Server!Next
      <4>1. revision' > revision /\ UNCHANGED sending
        BY <3>1 DEF Enqueue, Commit, TypeOK
      <4> QED
        BY <4>1, EditServed
    <3>2. ASSUME NEW s \in Sessions, NEW items, Edit(s, items)
          PROVE  Server!Next
      BY <3>2, EditServed DEF Edit, Commit, TypeOK
    <3>3. ASSUME NEW s \in Sessions, Reorder(s)
          PROVE  Server!Next
      BY <3>3, EditServed DEF Reorder, Commit, TypeOK, loopVars
    <3>4. ASSUME NEW k \in Tasks, CancelScheduledTask(k)
          PROVE  Server!Next
      <4>1. IsFiniteSet(Affected(k)) /\ Affected(k) # {}
        BY <3>4, BoundsAssumption, FS_Subset DEF Affected, CancelScheduledTask
      <4>2. Cardinality(Affected(k)) \in Nat /\ Cardinality(Affected(k)) # 0
        BY <4>1, FS_CardinalityType, FS_EmptySet
      <4>3. revision' > revision /\ UNCHANGED sending
        BY <3>4, <4>2 DEF CancelScheduledTask, TypeOK
      <4> QED
        BY <4>3, EditServed
    <3>5. ASSUME NEW s \in Sessions, SetHold(s) \/ ReleaseHold(s)
          PROVE  UNCHANGED <<queues, revision, sending>>
      BY <3>5 DEF SetHold, ReleaseHold, queueVars
    <3>6. CASE Stop
      BY <3>6 DEF Stop, queueVars
    <3> QED
      BY <2>1, <3>1, <3>2, <3>3, <3>4, <3>5, <3>6
         DEF Mutations, TakeAll, Clear, Remove, Take
  <2>2. CASE Clocks
    BY <2>2 DEF Clocks, TimerIgnored, AbortWindowEnds, BackoffEnds, HoldExpires, queueVars
  <2>3. ASSUME NEW t \in Ticks, NEW s \in Sessions, TickBegins(t, s)
        PROVE  UNCHANGED <<queues, revision, sending>>
    BY <2>3 DEF TickBegins, queueVars
  <2>4. ASSUME NEW t \in Ticks, NEW s \in Sessions, NEW i \in Ids, Probes(t, s, i)
        PROVE  Server!Next \/ UNCHANGED <<queues, revision, sending>>
    <3>1. CASE TargetRefused(t, s, i)
      BY <3>1, EditServed DEF TargetRefused, Commit, TypeOK
    <3>2. CASE ~TargetRefused(t, s, i)
      BY <2>4, <3>2 DEF Probes, ProbeActive, ProbeTail, ProbeSubagents, ProbeFails,
         TargetValid, GiveUp, queueVars
    <3> QED
      BY <3>1, <3>2
  <2>5. ASSUME NEW t \in Ticks, NEW s \in Sessions, NEW i \in Ids, Sends(t, s, i)
        PROVE  Server!Next \/ UNCHANGED <<queues, revision, sending>>
    <3>1. CASE Launch(t, s, i)
      <4>1. Server!Claim(s, i)
        BY <3>1 DEF Launch, IsHead, Server!Claim, queueVars
      <4> QED
        BY <4>1 DEF Server!Next
    <3>2. CASE BeforeSendPasses(t, s, i) \/ Prepare(t, s, i) \/ PromptAdmitted(t, s, i)
      BY <3>2 DEF BeforeSendPasses, Prepare, PromptAdmitted, queueVars
    <3>3. CASE SendFails(t, s, i) \/ ResponseLost(t, s, i)
      <4>1. /\ InFlight(t) /\ ticks[t].session = s
            /\ sending' = [sending EXCEPT ![s] = NoId] /\ UNCHANGED <<queues, revision>>
        BY <3>3 DEF SendFails, ResponseLost, SendFailed, Running, InFlight, FlightPhases, queueVars
      <4> QED
        BY <4>1, EndServed
    <3>4. CASE BeforeSendRefuses(t, s, i) \/ SendSucceeds(t, s, i)
      <4>1. /\ InFlight(t) /\ ticks[t].session = s /\ ticks[t].item = i
            /\ sending' = [sending EXCEPT ![s] = NoId]
            /\ revision' = revision + 1
        BY <3>4 DEF BeforeSendRefuses, SendSucceeds, Commit, Running, InFlight, FlightPhases
      <4>2. queues' = [queues EXCEPT ![s] = @ \ {i}]
        BY <3>4, DropTakesOut DEF BeforeSendRefuses, SendSucceeds
      <4>3. revision' > revision
        BY <4>1 DEF TypeOK
      <4> QED
        BY <4>1, <4>2, <4>3, EndServed
    <3> QED
      BY <2>5, <3>1, <3>2, <3>3, <3>4 DEF Sends
  <2>6. CASE DeliverEvent
    <3>1. CASE \E s \in Sessions : DropDeletedSession(s)
      BY <2>6, <3>1, EditServed DEF DeliverEvent, DropDeletedSession, Commit, TypeOK
    <3>2. CASE ~\E s \in Sessions : DropDeletedSession(s)
      <4>1. Head(events) \in [type : EventTypes, session : Sessions]
        BY <2>6, HeadTailProperties DEF DeliverEvent, TypeOK
      <4> QED
        BY <2>6, <3>2, <4>1 DEF DeliverEvent, ProcessPayload, queueVars
    <3> QED
      BY <3>1, <3>2
  <2>7. CASE Reconnect
    BY <2>7 DEF Reconnect, queueVars
  <2>8. CASE OpenCode
    BY <2>8 DEF OpenCode, UserPrompt, StepCompletes, Unlisted, TurnEnds, SubagentReturns,
       UserAborts, SessionDeleted, Outside, queueVars, loopVars
  <2>9. CASE UNCHANGED vars
    BY <2>9 DEF vars, queueVars, loopVars
  <2> QED
    BY <2>1, <2>2, <2>3, <2>4, <2>5, <2>6, <2>7, <2>8, <2>9 DEF Next, Loop, Hub
<1> QED
  BY <1>1, <1>2, TypeCorrect, OneSendPerSessionCorrect, PTL DEF Spec, QueueServed, Server!Spec

-----------------------------------------------------------------------------
(* Kinds of steps *)

\* The items that leave the queues in a step.
Leaving == UNION {queues[s] \ queues'[s] : s \in Sessions}

\* Items take each other's places.
Permuted == \A s \in Sessions : \A i \in queues[s] :
  \E r \in Sessions : \E j \in queues[r] : position'[i] = position[j]

\* A tick took its item out as sent.
Delivers == \E t \in Ticks, s \in Sessions, i \in Ids : SendSucceeds(t, s, i)

\* Queues shrink, under a new revision, and what leaves is reported, as sent
\* only by the tick that sent it; or they stay, but perhaps for their order.
Shrinks ==
  /\ UNCHANGED <<created, task>>
  /\ \A s \in Sessions : queues'[s] \subseteq queues[s]
  /\ \/ \E status \in Statuses : /\ Report(Leaving, status) /\ (status = "sent" => Delivers)
                                  /\ revision' > revision /\ UNCHANGED position
     \/ UNCHANGED <<queues, reports, position>>
     \/ UNCHANGED <<queues, reports>> /\ Permuted /\ revision' > revision /\ Happens("reorder")

\* An edit of one queue, which keeps some of its items.
LEMMA EditShrinks ==
  ASSUME TypeOK, NEW s \in Sessions, NEW items \in SUBSET queues[s], NEW status \in Statuses,
         queues' = [queues EXCEPT ![s] = items], Report(queues[s] \ items, status),
         status = "sent" => Delivers, revision' > revision, UNCHANGED <<created, task, position>>
  PROVE  Shrinks
<1>1. queues'[s] = items /\ \A r \in Sessions : r # s => queues'[r] = queues[r]
  BY DEF TypeOK
<1>2. Leaving = queues[s] \ items
  BY <1>1 DEF Leaving
<1> QED
  BY <1>1, <1>2 DEF Shrinks

\* The end of a tick that takes its item out of the queue.
LEMMA DropShrinks ==
  ASSUME TypeOK, NEW s \in Sessions, NEW i, NEW status \in Statuses,
         DropFromQueue(s, i, status), status = "sent" => Delivers, Commit,
         UNCHANGED <<created, task, position>>
  PROVE  Shrinks
<1>1. revision' > revision
  BY DEF Commit, TypeOK
<1>2. CASE queues[s] = {}
  BY <1>1, <1>2 DEF DropFromQueue, Shrinks
<1>3. CASE queues[s] # {}
  <2>1. queues' = [queues EXCEPT ![s] = queues[s] \ {i}] /\ Report(queues[s] \ (queues[s] \ {i}), status)
    BY <1>3 DEF DropFromQueue, SetQueueItems
  <2> QED
    BY <1>1, <2>1, EditShrinks
<1> QED
  BY <1>2, <1>3

\* Only an enqueue lets a queue grow.
LEMMA QueueSteps ==
  ASSUME TypeOK, [Next]_vars
  PROVE  Shrinks \/ \E s \in Sessions, k \in Tasks \cup {NoTask} : Enqueue(s, k)
<1>1. ASSUME UNCHANGED <<queueVars, reports>> PROVE Shrinks
  BY <1>1 DEF Shrinks, queueVars
<1>2. CASE Mutations
  <2>1. ASSUME NEW s \in Sessions, NEW items \in SUBSET queues[s], Edit(s, items) PROVE Shrinks
    <3>1. /\ queues' = [queues EXCEPT ![s] = items] /\ Report(queues[s] \ items, "cancelled")
          /\ revision' > revision /\ UNCHANGED <<created, task, position>>
      BY <2>1 DEF Edit, SetQueueItems, Commit, TypeOK
    <3> QED
      BY <3>1, EditShrinks DEF Statuses
  <2>2. ASSUME NEW s \in Sessions, TakeAll(s) \/ Clear(s) PROVE Shrinks
    BY <2>1, <2>2 DEF TakeAll, Clear
  <2>3. ASSUME NEW s \in Sessions, NEW i \in Ids, Remove(s, i) \/ Take(s, i) PROVE Shrinks
    BY <2>1, <2>3 DEF Remove, Take
  <2>4. ASSUME NEW s \in Sessions, Reorder(s) PROVE Shrinks
    <3>1. PICK p \in [queues[s] -> {position[i] : i \in queues[s]}] :
            position' = [i \in Ids |-> IF i \in queues[s] THEN p[i] ELSE position[i]]
      BY <2>4 DEF Reorder, Permute
    <3>2. \A i \in queues[s] : p[i] \in {position[j] : j \in queues[s]}
      BY <3>1
    <3>3. Permuted
      BY <3>1, <3>2 DEF Permuted, TypeOK
    <3> QED
      BY <2>4, <3>3 DEF Reorder, Commit, TypeOK, Shrinks, history
  <2>5. ASSUME NEW k \in Tasks, CancelScheduledTask(k) PROVE Shrinks
    <3>1. IsFiniteSet(Affected(k)) /\ Affected(k) # {}
      BY <2>5, BoundsAssumption, FS_Subset DEF Affected, CancelScheduledTask
    <3>2. Cardinality(Affected(k)) \in Nat /\ Cardinality(Affected(k)) # 0
      BY <3>1, FS_CardinalityType, FS_EmptySet
    <3>3. revision' > revision /\ UNCHANGED <<created, task, position>>
      BY <2>5, <3>2 DEF CancelScheduledTask, TypeOK
    <3>4. \A s \in Sessions : queues'[s] = queues[s] \ Cancelled(k, s) /\ Cancelled(k, s) \subseteq queues[s]
      BY <2>5 DEF CancelScheduledTask, Cancelled
    <3>5. Leaving = UNION {Cancelled(k, s) : s \in Sessions}
      BY <3>4 DEF Leaving
    <3>6. Report(Leaving, "cancelled")
      BY <2>5, <3>5 DEF CancelScheduledTask
    <3> QED
      BY <3>3, <3>4, <3>6 DEF Shrinks, Statuses
  <2>6. ASSUME NEW s \in Sessions, SetHold(s) \/ ReleaseHold(s) PROVE Shrinks
    <3>1. UNCHANGED <<queueVars, reports>>
      BY <2>6 DEF SetHold, ReleaseHold, history
    <3> QED
      BY <1>1, <3>1
  <2>7. CASE Stop
    BY <1>1, <2>7 DEF Stop, history
  <2> QED
    BY <1>2, <2>2, <2>3, <2>4, <2>5, <2>6, <2>7 DEF Mutations
<1>3. CASE Clocks \/ Reconnect \/ OpenCode \/ UNCHANGED vars
  BY <1>1, <1>3 DEF Clocks, TimerIgnored, AbortWindowEnds, BackoffEnds, HoldExpires, Reconnect,
     OpenCode, UserPrompt, StepCompletes, Unlisted, TurnEnds, SubagentReturns, UserAborts,
     SessionDeleted, Outside, vars, history
<1>4. CASE DeliverEvent
  <2>1. CASE \E s \in Sessions : DropDeletedSession(s)
    <3>1. PICK s \in Sessions : DropDeletedSession(s)
      BY <2>1
    <3>2. /\ queues' = [queues EXCEPT ![s] = {}] /\ Report(queues[s] \ {}, "cancelled")
          /\ revision' > revision /\ UNCHANGED <<created, task, position>>
      BY <3>1 DEF DropDeletedSession, Commit, TypeOK
    <3> QED
      BY <3>2, EditShrinks DEF Statuses
  <2>2. CASE ~\E s \in Sessions : DropDeletedSession(s)
    <3>1. Head(events) \in [type : EventTypes, session : Sessions]
      BY <1>4, HeadTailProperties DEF DeliverEvent, TypeOK
    <3> QED
      BY <1>1, <1>4, <2>2, <3>1 DEF DeliverEvent, ProcessPayload
  <2> QED
    BY <2>1, <2>2
<1>5. ASSUME NEW t \in Ticks, NEW s \in Sessions, TickBegins(t, s) PROVE Shrinks
  <2>1. UNCHANGED <<queueVars, reports>>
    BY <1>5 DEF TickBegins, history
  <2> QED
    BY <1>1, <2>1
<1>6. ASSUME NEW t \in Ticks, NEW s \in Sessions, NEW i \in Ids, Probes(t, s, i) PROVE Shrinks
  <2>1. CASE TargetRefused(t, s, i)
    BY <2>1, DropShrinks DEF TargetRefused, Statuses
  <2>2. CASE ~TargetRefused(t, s, i)
    <3>1. UNCHANGED <<queueVars, reports>>
      BY <1>6, <2>2 DEF Probes, ProbeActive, ProbeTail, ProbeSubagents, ProbeFails, TargetValid,
         GiveUp, history
    <3> QED
      BY <1>1, <3>1
  <2> QED
    BY <2>1, <2>2
<1>7. ASSUME NEW t \in Ticks, NEW s \in Sessions, NEW i \in Ids, Sends(t, s, i) PROVE Shrinks
  <2>1. CASE BeforeSendRefuses(t, s, i)
    BY <2>1, DropShrinks DEF BeforeSendRefuses, Statuses
  <2>2. CASE SendSucceeds(t, s, i)
    <3>1. Delivers
      BY <2>2 DEF Delivers
    <3> QED
      BY <2>2, <3>1, DropShrinks DEF SendSucceeds, Statuses
  <2>3. CASE ~BeforeSendRefuses(t, s, i) /\ ~SendSucceeds(t, s, i)
    <3>1. UNCHANGED <<queueVars, reports>>
      BY <1>7, <2>3 DEF Sends, Launch, BeforeSendPasses, Prepare, SendFails, SendFailed,
         PromptAdmitted, ResponseLost, history
    <3> QED
      BY <1>1, <3>1
  <2> QED
    BY <2>1, <2>2, <2>3
<1> QED
  BY <1>2, <1>3, <1>4, <1>5, <1>6, <1>7 DEF Next, Loop, Hub

-----------------------------------------------------------------------------
(* Revisions *)

\* Whatever changes a queue or its order counts the revision up.
THEOREM RevisionCountsEditsCorrect == Spec => RevisionCountsEdits
<1>1. TypeOK /\ [Next]_vars =>
        (queues' # queues \/ (\E s \in Sessions : \E i \in queues[s] : position'[i] # position[i])
           => revision' > revision)
  <2> SUFFICES ASSUME TypeOK, [Next]_vars,
                      queues' # queues \/ \E s \in Sessions : \E i \in queues[s] : position'[i] # position[i]
               PROVE  revision' > revision
    OBVIOUS
  <2>1. CASE Shrinks
    BY <2>1 DEF Shrinks
  <2>2. ASSUME NEW s \in Sessions, NEW k \in Tasks \cup {NoTask}, Enqueue(s, k) PROVE revision' > revision
    BY <2>2 DEF Enqueue, Commit, TypeOK
  <2> QED
    BY <2>1, <2>2, QueueSteps
<1> QED
  BY <1>1, TypeCorrect, PTL DEF Spec, RevisionCountsEdits

-----------------------------------------------------------------------------
(* Results *)

Waits(i) == \E s \in Sessions : i \in queues[s]

\* The scheduler heard once of what left the queues, and not of what waits or
\* is to come; a new item goes behind all others.
ResultInv ==
  /\ ScheduledResultOnce
  /\ \A i \in Ids : i > created => reports[i] = <<>> /\ task[i] = NoTask
  /\ \A s \in Sessions : \A i \in queues[s] : position[i] <= created

\* What is new stays in its queue, and what makes room for it is reported.
LEMMA EnqueueKeeps ==
  ASSUME TypeOK, DeliveryInv, ResultInv, NEW s \in Sessions, NEW k \in Tasks \cup {NoTask}, Enqueue(s, k)
  PROVE  /\ created \in Nat /\ created' = created + 1 /\ created' \in Ids
         /\ created' \in queues'[s]
         /\ \A r \in Sessions : \A i \in queues'[r] : i \in queues[r] \/ (r = s /\ i = created')
         /\ Report(Leaving, "cancelled")
         /\ \A r \in Sessions : queues[r] \subseteq Ids /\ created' \notin queues[r]
<1>1. created \in Nat /\ created' = created + 1 /\ created' \in Ids
  BY BoundsAssumption DEF Enqueue, TypeOK, Ids
<1>2. \A r \in Sessions : queues[r] \subseteq Ids /\ created' \notin queues[r]
  BY <1>1 DEF TypeOK, DeliveryInv, IdsUsedOnce
<1> DEFINE id == created + 1
           kept == Newest(queues[s] \cup {id}, id)
           after == [r \in Sessions |-> IF r = s THEN kept ELSE IF r \in Evicted(s) THEN {} ELSE queues[r]]
<1>3. queues' = after /\ Report(UNION {queues[r] \ after[r] : r \in Sessions}, "cancelled")
  BY DEF Enqueue
<1>4. kept \subseteq queues[s] \cup {id} /\ id \in kept
  <2>1. \A j \in queues[s] : position[j] < id /\ j # id
    BY <1>1, <1>2 DEF ResultInv, TypeOK, Ids
  <2> DEFINE Place(i) == IF i = id THEN id ELSE position[i]
  <2>2. {j \in queues[s] \cup {id} : Place(j) >= Place(id)} = {id}
    BY <1>1, <1>2, <2>1 DEF TypeOK, Ids
  <2>3. Cardinality({id}) <= MaxItems
    <3>1. Cardinality({id}) = 1
      BY FS_Singleton
    <3> QED
      BY <3>1, BoundsAssumption
  <2> QED
    BY <2>2, <2>3 DEF Newest
<1> HIDE DEF kept
<1>5. Leaving = UNION {queues[r] \ after[r] : r \in Sessions}
  BY <1>3 DEF Leaving
<1> QED
  BY <1>1, <1>2, <1>3, <1>4, <1>5

\* A step that adds at most a new item, and reports what leaves.
LEMMA ResultKept ==
  ASSUME TypeOK, TypeOK', DeliveryInv, ResultInv, NEW status \in Statuses, Report(Leaving, status),
         created' \in {created, created + 1},
         \A r \in Sessions : \A i \in queues'[r] : i \in queues[r] \/ i = created + 1,
         created' = created + 1 => \E s \in Sessions : created + 1 \in queues'[s],
         \A i \in Ids : i # created' \/ created' = created => task'[i] = task[i]
  PROVE  /\ ScheduledResultOnce'
         /\ \A i \in Ids : i > created' => reports'[i] = <<>> /\ task'[i] = NoTask
<1> USE DEF ResultInv
<1>1. created \in Nat /\ \A s \in Sessions : queues[s] \subseteq 1 .. created
  BY DEF TypeOK, DeliveryInv, IdsUsedOnce
<1>2. \A i \in Leaving : i \in 1 .. created /\ Waits(i) /\ (i \in Ids => ~Waits(i)')
  <2> SUFFICES ASSUME NEW s \in Sessions, NEW i \in queues[s], i \notin queues'[s]
               PROVE  i \in 1 .. created /\ Waits(i) /\ ~Waits(i)'
    BY DEF Leaving
  <2>1. i \in 1 .. created
    BY <1>1
  <2>2. \A r \in Sessions : i \in queues[r] => r = s
    BY DEF DeliveryInv, IdsUsedOnce
  <2> QED
    BY <1>1, <2>1, <2>2 DEF Waits
<1>3. ASSUME NEW i \in Ids PROVE reports'[i] = IF i \in Leaving /\ task[i] # NoTask THEN Append(reports[i], status) ELSE reports[i]
  BY <1>3 DEF Report
<1>4. ASSUME NEW i \in Ids, i > created' PROVE reports'[i] = <<>> /\ task'[i] = NoTask
  BY <1>1, <1>2, <1>3, <1>4 DEF Ids
<1>5. ASSUME NEW i \in Ids, i \in 1 .. created', task'[i] # NoTask
      PROVE  Len(reports'[i]) = IF Waits(i)' THEN 0 ELSE 1
  <2>1. CASE i \in 1 .. created
    <3>1. task'[i] = task[i]
      BY <1>1, <2>1
    <3>2. Len(reports[i]) = IF Waits(i) THEN 0 ELSE 1
      BY <1>5, <2>1, <3>1 DEF ScheduledResultOnce, Waits
    <3>3. CASE i \in Leaving
      <4>1. Len(reports[i]) = 0 /\ reports[i] \in Seq(Statuses)
        BY <1>2, <3>2, <3>3 DEF TypeOK
      <4>2. reports'[i] = Append(reports[i], status)
        BY <1>3, <1>5, <3>1, <3>3
      <4>3. Len(reports'[i]) = 1
        BY <4>1, <4>2
      <4> QED
        BY <1>2, <3>3, <4>3
    <3>4. CASE i \notin Leaving
      <4>1. Waits(i)' <=> Waits(i)
        BY <1>1, <2>1, <3>4 DEF Leaving, Waits
      <4> QED
        BY <1>3, <3>2, <3>4, <4>1
    <3> QED
      BY <3>3, <3>4
  <2>2. CASE i = created + 1 /\ created' = created + 1
    <3>1. reports[i] = <<>> /\ i \notin Leaving
      BY <1>1, <1>2, <2>2
    <3>2. reports'[i] = <<>> /\ Waits(i)'
      BY <1>3, <2>2, <3>1 DEF Waits
    <3> QED
      BY <3>2
  <2> QED
    BY <1>1, <1>5, <2>1, <2>2
<1>6. 1 .. created' \subseteq Ids
  BY BoundsAssumption DEF TypeOK, Ids
<1> QED
  BY <1>4, <1>5, <1>6 DEF ScheduledResultOnce, Waits

LEMMA ResultInvCorrect == Spec => []ResultInv
<1>1. Init => ResultInv
  <2> SUFFICES ASSUME Init PROVE ResultInv
    OBVIOUS
  <2>1. created \in Nat /\ \A s \in Sessions : queues[s] \subseteq 1 .. created
    BY BoundsAssumption DEF Init
  <2>2. 1 .. created \subseteq Ids
    BY BoundsAssumption DEF Init, Ids
  <2>3. \A s \in Sessions : \A i \in queues[s] : position[i] <= created
    BY <2>1, <2>2 DEF Init
  <2>4. \A i \in Ids : task[i] = NoTask /\ reports[i] = <<>>
    BY DEF Init
  <2> QED
    BY <2>2, <2>3, <2>4 DEF ResultInv, ScheduledResultOnce
<1>2. TypeOK /\ DeliveryInv /\ ResultInv /\ [Next]_vars /\ TypeOK' => ResultInv'
  <2> SUFFICES ASSUME TypeOK, DeliveryInv, ResultInv, [Next]_vars, TypeOK' PROVE ResultInv'
    OBVIOUS
  <2>1. ASSUME NEW s \in Sessions, NEW k \in Tasks \cup {NoTask}, Enqueue(s, k) PROVE ResultInv'
    <3>1. \A i \in Ids : i # created' => task'[i] = task[i] /\ position'[i] = position[i]
      BY <2>1 DEF Enqueue, TypeOK
    <3>2. position'[created'] = created'
      BY <2>1, EnqueueKeeps DEF Enqueue, TypeOK
    <3>3. \A r \in Sessions : \A i \in queues'[r] : position'[i] <= created'
      <4> SUFFICES ASSUME NEW r \in Sessions, NEW i \in queues'[r] PROVE position'[i] <= created'
        OBVIOUS
      <4>1. i \in queues[r] \/ i = created'
        BY <2>1, EnqueueKeeps
      <4>2. CASE i = created'
        BY <2>1, <3>2, <4>2, EnqueueKeeps
      <4>3. CASE i \in queues[r]
        <5>1. i \in Ids /\ i # created' /\ created \in Nat /\ created' = created + 1
          BY <2>1, <4>3, EnqueueKeeps
        <5>2. position'[i] = position[i] /\ position[i] <= created /\ position[i] \in Nat
          BY <3>1, <4>3, <5>1 DEF ResultInv, TypeOK, Ids
        <5> QED
          BY <5>1, <5>2
      <4> QED
        BY <4>1, <4>2, <4>3
    <3>4. /\ Report(Leaving, "cancelled") /\ created' = created + 1 /\ created \in Nat
          /\ \A r \in Sessions : \A i \in queues'[r] : i \in queues[r] \/ i = created + 1
          /\ \E r \in Sessions : created + 1 \in queues'[r]
      BY <2>1, EnqueueKeeps
    <3>5. "cancelled" \in Statuses
      BY DEF Statuses
    <3>6. /\ ScheduledResultOnce'
          /\ \A i \in Ids : i > created' => reports'[i] = <<>> /\ task'[i] = NoTask
      BY <3>1, <3>4, <3>5, ResultKept
    <3> QED
      BY <3>3, <3>6 DEF ResultInv
  <2>2. CASE Shrinks
    <3>1. CASE UNCHANGED <<queues, reports>>
      <4>1. UNCHANGED <<created, task, queues, reports>>
        BY <2>2, <3>1 DEF Shrinks
      <4>2. \A s \in Sessions : \A i \in queues[s] :
              \E r \in Sessions : \E j \in queues[r] : position'[i] = position[j]
        BY <2>2 DEF Shrinks, Permuted
      <4> QED
        BY <4>1, <4>2 DEF ResultInv, ScheduledResultOnce
    <3>2. ASSUME NEW status \in Statuses, Report(Leaving, status), UNCHANGED position PROVE ResultInv'
      <4>1. created' = created /\ UNCHANGED task /\ created \in Nat
            /\ \A r \in Sessions : \A i \in queues'[r] : i \in queues[r]
        BY <2>2 DEF Shrinks, TypeOK
      <4>2. /\ ScheduledResultOnce'
            /\ \A i \in Ids : i > created' => reports'[i] = <<>> /\ task'[i] = NoTask
        BY <3>2, <4>1, ResultKept
      <4> QED
        BY <3>2, <4>1, <4>2 DEF ResultInv
    <3> QED
      BY <2>2, <3>1, <3>2 DEF Shrinks
  <2> QED
    BY <2>1, <2>2, QueueSteps
<1> QED
  BY <1>1, <1>2, TypeCorrect, DeliveryInvCorrect, PTL DEF Spec

\* However items are sent, edited, evicted, cancelled and deleted, the scheduler
\* hears exactly once of each of its items that left the queues.
THEOREM ScheduledResultOnceCorrect == Spec => []ScheduledResultOnce
<1>1. ResultInv => ScheduledResultOnce
  BY DEF ResultInv
<1> QED
  BY <1>1, ResultInvCorrect, PTL

-----------------------------------------------------------------------------
(* One entry per task *)

\* A scheduled task waits in one queue, once, whatever is evicted and edited
\* between the scheduler's calls.
THEOREM OneEntryPerTaskCorrect == Spec => []OneEntryPerTask
<1>1. Init => OneEntryPerTask
  <2>1. ASSUME Init PROVE \A s \in Sessions : \A i \in queues[s] : task[i] = NoTask
    BY <2>1, StoredAssumption DEF Init
  <2> QED
    BY <2>1 DEF OneEntryPerTask
<1>2. TypeOK /\ DeliveryInv /\ OneEntryPerTask /\ [Next]_vars => OneEntryPerTask'
  <2> SUFFICES ASSUME TypeOK, DeliveryInv, OneEntryPerTask, [Next]_vars PROVE OneEntryPerTask'
    OBVIOUS
  <2>1. CASE Shrinks
    BY <2>1 DEF Shrinks, OneEntryPerTask
  <2>2. ASSUME NEW q \in Sessions, NEW k \in Tasks \cup {NoTask}, Enqueue(q, k) PROVE OneEntryPerTask'
    <3>1. created' \in Ids /\ \A s \in Sessions : queues[s] \subseteq Ids /\ created' \notin queues[s]
      <4>1. created \in Nat /\ created' = created + 1 /\ created' \in Ids
        BY <2>2, BoundsAssumption DEF Enqueue, TypeOK, Ids
      <4> QED
        BY <4>1 DEF TypeOK, DeliveryInv, IdsUsedOnce
    <3>2. \A r \in Sessions : \A i \in queues'[r] : i \in queues[r] \/ (r = q /\ i = created')
      BY <2>2 DEF Enqueue, Newest
    <3>3. task'[created'] = k /\ \A i \in Ids : i # created' => task'[i] = task[i]
      BY <2>2, <3>1 DEF Enqueue, TypeOK
    <3>4. k # NoTask => \A r \in Sessions : \A i \in queues[r] : task[i] # k
      BY <2>2 DEF Enqueue, Accepts
    <3>5. ASSUME NEW r \in Sessions, NEW s \in Sessions, NEW i \in queues'[r], NEW j \in queues'[s],
                 task'[i] = task'[j], task'[i] # NoTask
          PROVE  i = j /\ r = s
      <4>1. CASE i \in queues[r] /\ j \in queues[s]
        BY <3>1, <3>3, <3>5, <4>1 DEF OneEntryPerTask
      <4>2. CASE i = created' /\ r = q /\ j \in queues[s]
        BY <3>1, <3>3, <3>4, <3>5, <4>2
      <4>3. CASE i \in queues[r] /\ j = created' /\ s = q
        BY <3>1, <3>3, <3>4, <3>5, <4>3
      <4> QED
        BY <3>2, <4>1, <4>2, <4>3
    <3> QED
      BY <3>5 DEF OneEntryPerTask
  <2> QED
    BY <2>1, <2>2, QueueSteps
<1> QED
  BY <1>1, <1>2, TypeCorrect, DeliveryInvCorrect, PTL DEF Spec

-----------------------------------------------------------------------------
(* Order *)

\* Without reorders the queues are in the order of their ids, and nothing older
\* than what is in flight waits with it.
OrderInv ==
  /\ position = [i \in Ids |-> i]
  /\ \A t \in Ticks : InFlight(t) => \A i \in queues[ticks[t].session] : ticks[t].item <= i

\* A tick gets in flight by a claim, with the item it claims, and keeps it.
LEMMA FlightSteps ==
  ASSUME TypeOK, [Next]_vars, NEW u \in Ticks, InFlight(u)'
  PROVE  \/ InFlight(u) /\ ticks'[u].session = ticks[u].session /\ ticks'[u].item = ticks[u].item
         \/ /\ Launch(u, ticks'[u].session, ticks'[u].item)
            /\ ticks'[u].session \in Sessions
<1> DEFINE Stays == InFlight(u) /\ ticks'[u].session = ticks[u].session /\ ticks'[u].item = ticks[u].item
<1>1. ASSUME ticks'[u] = ticks[u] PROVE Stays
  BY <1>1 DEF InFlight
<1>2. CASE Mutations \/ Clocks \/ Hub \/ OpenCode \/ UNCHANGED vars
  <2>1. UNCHANGED ticks
    BY <1>2 DEF Mutations, Enqueue, TakeAll, Clear, Reorder, SetHold, ReleaseHold, Remove, Take,
       CancelScheduledTask, Stop, Edit, Clocks, TimerIgnored, AbortWindowEnds, BackoffEnds, HoldExpires,
       Hub, DeliverEvent, Reconnect, OpenCode, UserPrompt, StepCompletes, Unlisted, TurnEnds,
       SubagentReturns, UserAborts, SessionDeleted, Outside, vars, loopVars
  <2> QED
    BY <1>1, <2>1
<1>3. ASSUME NEW t \in Ticks, NEW s \in Sessions, TickBegins(t, s) PROVE Stays
  <2>1. PICK head \in queues[s] :
          ticks' = [ticks EXCEPT ![t] = [phase |-> "active", session |-> s, item |-> head]]
    BY <1>3 DEF TickBegins
  <2>2. u # t
    BY <2>1 DEF InFlight, FlightPhases, TypeOK
  <2> QED
    BY <1>1, <2>1, <2>2 DEF TypeOK
<1>4. ASSUME NEW t \in Ticks, u # t, Finish(t) \/ \E phase : Goto(t, phase) PROVE Stays
  BY <1>1, <1>4 DEF Finish, Goto, TypeOK
<1>5. ASSUME Finish(u) PROVE FALSE
  BY <1>5 DEF Finish, InFlight, TypeOK
<1>6. ASSUME NEW t \in Ticks, NEW s \in Sessions, NEW i \in Ids, Probes(t, s, i) PROVE Stays
  <2>1. ticks[t] # Idle /\ (Finish(t) \/ \E phase \in ProbePhases : Goto(t, phase))
    BY <1>6 DEF Probes, ProbeActive, ProbeTail, ProbeSubagents, ProbeFails, TargetRefused,
       TargetValid, GiveUp, ProbePhases, Running
  <2>2. ASSUME t = u, NEW phase \in ProbePhases, Goto(t, phase) PROVE FALSE
    <3>1. ticks'[u].phase = phase
      BY <2>1, <2>2 DEF Goto, TypeOK, Tick
    <3> QED
      BY <2>2, <3>1 DEF InFlight, ProbePhases, FlightPhases
  <2> QED
    BY <1>4, <1>5, <2>1, <2>2
<1>7. ASSUME NEW t \in Ticks, NEW s \in Sessions, NEW i \in Ids, Sends(t, s, i)
      PROVE  Stays \/ (Launch(u, ticks'[u].session, ticks'[u].item) /\ ticks'[u].session \in Sessions)
  <2>1. Running(t, s, i, {"ready"} \cup FlightPhases) /\ (Finish(t) \/ \E phase : Goto(t, phase))
    BY <1>7 DEF Sends, Launch, BeforeSendPasses, BeforeSendRefuses, Prepare, SendFails, SendFailed,
       PromptAdmitted, SendSucceeds, ResponseLost, Running, FlightPhases
  <2>2. ASSUME t = u, NEW phase, Goto(t, phase)
        PROVE  ticks'[u].session = s /\ ticks'[u].item = i /\ ticks[u].session = s /\ ticks[u].item = i
    BY <2>1, <2>2 DEF Goto, TypeOK, Tick, Running
  <2>3. CASE Launch(t, s, i)
    BY <1>4, <1>5, <2>1, <2>2, <2>3
  <2>4. CASE ~Launch(t, s, i)
    <3>1. InFlight(t)
      BY <1>7, <2>4 DEF Sends, BeforeSendPasses, BeforeSendRefuses, Prepare, SendFails,
         PromptAdmitted, SendSucceeds, ResponseLost, Running, InFlight, FlightPhases
    <3> QED
      BY <1>4, <1>5, <2>1, <2>2, <3>1
  <2> QED
    BY <2>3, <2>4
<1> QED
  BY <1>2, <1>3, <1>6, <1>7 DEF Next, Loop

LEMMA OrderInvCorrect ==
  ASSUME ~Happens("reorder")
  PROVE  Spec => []OrderInv
<1>1. Init => OrderInv
  BY DEF Init, OrderInv, InFlight
<1>2. TypeOK /\ DeliveryInv /\ OrderInv /\ [Next]_vars => OrderInv'
  <2> SUFFICES ASSUME TypeOK, DeliveryInv, OrderInv, [Next]_vars PROVE OrderInv'
    OBVIOUS
  <2>1. position' = position
    <3>1. CASE Shrinks
      BY <3>1 DEF Shrinks
    <3>2. ASSUME NEW s \in Sessions, NEW k \in Tasks \cup {NoTask}, Enqueue(s, k) PROVE position' = position
      BY <3>2, BoundsAssumption DEF Enqueue, OrderInv, TypeOK, Ids
    <3> QED
      BY <3>1, <3>2, QueueSteps
  <2>2. ASSUME NEW t \in Ticks, InFlight(t)', NEW i \in queues'[ticks'[t].session] PROVE ticks'[t].item <= i
    <3> DEFINE s == ticks'[t].session
               head == ticks'[t].item
    <3>1. CASE Shrinks
      <4>1. s \in Sessions => i \in queues[s]
        BY <2>2, <3>1 DEF Shrinks
      <4>2. CASE InFlight(t) /\ ticks'[t].session = ticks[t].session /\ ticks'[t].item = ticks[t].item
        <5>1. s \in Sessions
          BY <4>2 DEF InFlight, TypeOK, Tick
        <5> QED
          BY <4>1, <4>2, <5>1 DEF OrderInv
      <4>3. CASE Launch(t, s, head) /\ s \in Sessions
        <5>1. head \in queues[s] /\ position[head] <= position[i]
          BY <4>1, <4>3 DEF Launch, IsHead
        <5> QED
          BY <4>1, <4>3, <5>1 DEF OrderInv, TypeOK
      <4> QED
        BY <2>2, <4>2, <4>3, FlightSteps
    <3>2. ASSUME NEW q \in Sessions, NEW k \in Tasks \cup {NoTask}, Enqueue(q, k) PROVE ticks'[t].item <= i
      <4>1. ticks'[t] = ticks[t] /\ InFlight(t)
        BY <2>2, <3>2 DEF Enqueue, InFlight
      <4>2. s \in Sessions /\ head \in Nat /\ head <= created /\ created \in Nat
        BY <4>1 DEF InFlight, TypeOK, Tick, Ids, DeliveryInv, IdsUsedOnce
      <4>3. i \in queues[s] \/ i = created + 1
        BY <2>2, <3>2, <4>2 DEF Enqueue, Newest
      <4> QED
        BY <4>1, <4>2, <4>3 DEF OrderInv
    <3> QED
      BY <3>1, <3>2, QueueSteps
  <2> QED
    BY <2>1, <2>2 DEF OrderInv
<1> QED
  BY <1>1, <1>2, TypeCorrect, DeliveryInvCorrect, PTL DEF Spec

\* However ticks overlap and sends fail and are tried again, nothing overtakes
\* an older item of its session as long as nobody reorders.
THEOREM NoOvertakingCorrect ==
  ASSUME ~Happens("reorder")
  PROVE  Spec => NoOvertaking
<1>1. OrderInv => \A t \in Ticks : Admits(t) => \A i \in queues[ticks[t].session] : ticks[t].item <= i
  BY DEF OrderInv, Admits, InFlight, FlightPhases
<1> QED
  BY <1>1, OrderInvCorrect, PTL DEF Spec, NoOvertaking
=============================================================================
