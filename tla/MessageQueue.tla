---------------------------- MODULE MessageQueue ----------------------------
(***************************************************************************)
(* The server-owned message queue (packages/web/server/lib/message-queue/  *)
(* runtime.js): the messages a user queued while a session was busy, the   *)
(* dispatch loop that sends the head of a queue once the session is idle,  *)
(* the client mutations that edit a queue meanwhile, and the hub events    *)
(* that drive the loop.  OpenCode, which runs the sessions, is external    *)
(* and modelled by what the runtime asks of it and hears from it.          *)
(*                                                                         *)
(* An item is its id; ids are handed out in creation order, so they stand  *)
(* for createdAt as well.  A queue is the set of its items ordered by      *)
(* position: a filter of the array is a set difference, a reorder permutes *)
(* the positions.  What an item carries (text, files, context, model) is   *)
(* abstracted to its optional scheduled task.  Delays are abstracted: a    *)
(* timer fires some time after it is armed, a window closes some time      *)
(* after it opens.                                                         *)
(***************************************************************************)
EXTENDS Naturals, Sequences, FiniteSets

CONSTANTS
  Sessions,     \* OpenCode sessions
  Tasks,        \* scheduled tasks that may be queued
  NoTask,       \* provenance of an ordinary item
  Ticks,        \* ticks that may run at the same time
  MaxItems,     \* MAX_ITEMS_PER_SESSION
  MaxSessions,  \* MAX_SESSIONS
  StoredQueues, \* queues a queue file may restore: [Sessions -> SUBSET Ids]
  Behaviours,   \* the optional steps of users, faults and OpenCode that happen
  MaxId,        \* bound: items ever created
  MaxRevision,  \* bound: revision up to which a queue is reordered or cleared
  MaxEvents,    \* bound: hub events not yet delivered
  MaxAdmits     \* bound: prompts of one item whose response gets lost

ASSUME BoundsAssumption ==
  /\ MaxItems \in Nat \ {0}
  /\ MaxSessions \in Nat \ {0}
  /\ MaxId \in Nat /\ MaxRevision \in Nat /\ MaxEvents \in Nat /\ MaxAdmits \in Nat
  /\ NoTask \notin Tasks
  /\ IsFiniteSet(Sessions)

Ids == 1 .. MaxId
NoId == 0
Statuses == {"sent", "failed", "cancelled"}

ASSUME StoredAssumption == StoredQueues \subseteq [Sessions -> SUBSET Ids]

\* A tick is probing until it sets `sending`, and in flight from then on.
ProbePhases  == {"active", "tail", "validate", "subagents", "ready"}
FlightPhases == {"before", "prepare", "prompt", "answer"}
Tick == [phase : ProbePhases \cup FlightPhases, session : Sessions, item : Ids]
Idle == [phase |-> "none"]

VARIABLES
  created,      \* items created so far; the last id handed out
  task,         \* the scheduledTask provenance of each item
  position,     \* where an item stands in its queue
  queues,       \* sessionId -> items; {} where the map has no entry
  directories,  \* sessions whose directory the runtime remembers
  revision,
  sending,      \* sessionId -> item in flight, or NoId
  timers,       \* sessions with an armed dispatch timer
  failures,     \* sessionId -> item whose retry backoff is running, or NoId
  aborted,      \* sessions inside the window after a user abort
  holds,        \* sessions whose hold has not expired
  stopped,
  ticks,        \* the ticks in progress
  reports,      \* history: results reported for each scheduled item
  admitted,     \* history: prompts OpenCode admitted for each item
  lost,         \* history: items whose admission was reported as a failure
  turn,         \* external: what each session is doing
  events        \* external: hub events on their way to the runtime

queueVars == <<created, task, position, queues, directories, revision>>
loopVars  == <<sending, timers, failures, aborted, holds, stopped, ticks>>
history   == <<reports, admitted, lost>>
external  == <<turn, events>>
vars      == <<queueVars, loopVars, history, external>>

(***************************************************************************)
(* The turn of a session: idle; dead, an unfinished reply left by a run    *)
(* from before this runtime; listed by /api/session/active; streaming, a   *)
(* reply still unfinished but not listed; subagent, idle itself while a    *)
(* descendant runs; gone, deleted.                                         *)
(***************************************************************************)
Turns == {"idle", "dead", "listed", "streaming", "subagent", "gone"}
Quiet == {"idle", "dead"}
EventTypes == {"busy", "idle", "aborted", "completed", "deleted"}

\* Queues hold items that were created, claims and retries name items, each tick
\* is in a phase of its loop: what the fields of the runtime's maps may be.
TypeOK ==
  /\ created \in 0 .. MaxId
  /\ task \in [Ids -> Tasks \cup {NoTask}]
  /\ position \in [Ids -> Ids]
  /\ queues \in [Sessions -> SUBSET Ids]
  /\ directories \subseteq Sessions
  /\ revision \in Nat
  /\ sending \in [Sessions -> Ids \cup {NoId}]
  /\ timers \subseteq Sessions
  /\ failures \in [Sessions -> Ids \cup {NoId}]
  /\ aborted \subseteq Sessions
  /\ holds \subseteq Sessions
  /\ stopped \in BOOLEAN
  /\ ticks \in [Ticks -> Tick \cup {Idle}]
  /\ reports \in [Ids -> Seq(Statuses)]
  /\ admitted \in [Ids -> Nat]
  /\ lost \subseteq Ids
  /\ turn \in [Sessions -> Turns]
  /\ events \in Seq([type : EventTypes, session : Sessions])

-----------------------------------------------------------------------------
(* Helpers *)

Queued == {s \in Sessions : queues[s] # {}}

\* Mutant: the queue is served from its end.
NewestFirst(s, i) ==
  i \in queues[s] /\ \A j \in queues[s] : position[i] >= position[j]

IsHead(s, i) ==
  /\ i \in queues[s]
  /\ \A j \in queues[s] : position[i] <= position[j]

\* setQueueItems: replaces the items of s; removed scheduled items are reported.
Report(removed, status) ==
  reports' = [i \in Ids |-> IF i \in removed /\ task[i] # NoTask
                            THEN Append(reports[i], status) ELSE reports[i]]

SetQueueItems(s, items, status) ==
  /\ queues' = [queues EXCEPT ![s] = items]
  /\ Report(queues[s] \ items, status)
  /\ directories' = directories \cup {s}

\* Mutants: a status the scheduler does not know; a report of an item that an
\* edit may have removed and reported already.
DropUnknownStatus(s, i, status) ==
  IF queues[s] # {} THEN SetQueueItems(s, queues[s] \ {i}, "refused")
  ELSE UNCHANGED <<queues, reports, directories>>

DropAlwaysReports(s, i, status) ==
  /\ queues' = [queues EXCEPT ![s] = @ \ {i}]
  /\ Report({i}, status)
  /\ UNCHANGED directories

\* The same, in continuations that first look whether the queue still exists.
DropFromQueue(s, i, status) ==
  IF queues[s] # {} THEN SetQueueItems(s, queues[s] \ {i}, status)
  ELSE UNCHANGED <<queues, reports, directories>>

\* armDispatch: nothing once stopped or without a queue.
Arm(s)     == timers' = IF stopped \/ queues'[s] = {} THEN timers ELSE timers \cup {s}
ArmAll(ss) == timers' = IF stopped THEN timers
                        ELSE timers \cup {s \in ss : queues'[s] # {}}
Disarm(s)  == timers' = timers \ {s}

\* commit: every mutation bumps the revision (and persists and broadcasts it).
Commit == revision' = revision + 1

Emit(type, s) ==
  /\ Len(events) < MaxEvents
  /\ events' = Append(events, [type |-> type, session |-> s])

Happens(behaviour) == behaviour \in Behaviours

\* Tick t works for session s on item i and is in one of the given phases.
Running(t, s, i, phases) ==
  ticks[t] # Idle /\ ticks[t].phase \in phases
                  /\ ticks[t].session = s /\ ticks[t].item = i
Goto(t, phase) == ticks' = [ticks EXCEPT ![t].phase = phase]
Finish(t)      == ticks' = [ticks EXCEPT ![t] = Idle]

InFlight(t) == ticks[t] # Idle /\ ticks[t].phase \in FlightPhases

Init ==
  /\ queues \in StoredQueues
  /\ created \in 0 .. MaxId
  /\ UNION {queues[s] : s \in Sessions} = 1 .. created
  /\ \A r, s \in Sessions : r # s => queues[r] \cap queues[s] = {}
  /\ task = [i \in Ids |-> NoTask]
  /\ position = [i \in Ids |-> i]
  /\ directories = {}
  /\ revision = created
  /\ sending = [s \in Sessions |-> NoId]
  /\ timers = {s \in Sessions : queues[s] # {}}
  /\ failures = [s \in Sessions |-> NoId]
  /\ aborted = {}
  /\ holds = {}
  /\ stopped = FALSE
  /\ ticks = [t \in Ticks |-> Idle]
  /\ reports = [i \in Ids |-> <<>>]
  /\ admitted = [i \in Ids |-> 0]
  /\ lost = {}
  /\ turn \in [Sessions -> Quiet \cup {"listed"}]
  /\ events = <<>>

-----------------------------------------------------------------------------
(* Client mutations and the scheduler's calls; refused calls change nothing. *)

\* Array.slice(-MAX_ITEMS_PER_SESSION) after the append of id at the end.
Newest(items, id) ==
  LET Place(i) == IF i = id THEN id ELSE position[i]
  IN  {i \in items : Cardinality({j \in items : Place(j) >= Place(i)}) <= MaxItems}

\* Mutants: the queue being written, or one in flight, is evicted as well.
EvictsWritten(s) ==
  LET spare == {v \in Queued : sending[v] = NoId}
      Older(v) == {w \in spare : \E i \in queues[w], j \in queues[v] :
                                   IsHead(w, i) /\ IsHead(v, j) /\ i < j}
  IN  {v \in spare : Cardinality(Older(v)) + MaxSessions < Cardinality(Queued \cup {s})}

EvictsInFlight(s) == IF Cardinality(Queued \cup {s}) > MaxSessions THEN Queued \ {s} ELSE {}

\* The sessions over MAX_SESSIONS, oldest head first, never s nor one in flight.
Evicted(s) ==
  LET spare == {v \in Queued \ {s} : sending[v] = NoId}
      Older(v) == {w \in spare : \E i \in queues[w], j \in queues[v] :
                                   IsHead(w, i) /\ IsHead(v, j) /\ i < j}
  IN  {v \in spare : Cardinality(Older(v)) + MaxSessions < Cardinality(Queued \cup {s})}

\* Mutant: a task is deduplicated in the session it goes to only.
AcceptsPerSession(s, k) ==
  k # NoTask =>
    /\ \A i \in queues[s] : task[i] # k
    /\ Cardinality(queues[s]) < MaxItems

\* A scheduled item is queued once over all sessions and evicts nothing.
Accepts(s, k) ==
  k # NoTask =>
    /\ \A r \in Sessions : \A i \in queues[r] : task[i] # k
    /\ Cardinality(queues[s]) < MaxItems
    /\ s \in Queued \/ Cardinality(Queued) < MaxSessions

Enqueue(s, k) ==
  LET id == created + 1
      kept == Newest(queues[s] \cup {id}, id)
      stale == Evicted(s)
      after == [r \in Sessions |-> IF r = s THEN kept
                                   ELSE IF r \in stale THEN {} ELSE queues[r]]
  IN
  /\ created < MaxId
  /\ Accepts(s, k)
  /\ created' = id
  /\ task' = [task EXCEPT ![id] = k]
  /\ position' = [position EXCEPT ![id] = id]
  /\ queues' = after
  /\ Report(UNION {queues[r] \ after[r] : r \in Sessions}, "cancelled")
  /\ directories' = (directories \cup {s}) \ stale
  /\ timers' = IF stopped THEN timers \ stale ELSE (timers \ stale) \cup {s}
  /\ Commit
  /\ UNCHANGED <<sending, failures, aborted, holds, stopped, ticks,
                 admitted, lost, external>>

\* Mutant: the items leave without a word to the scheduler.
EditUnreported(s, items) ==
  /\ queues' = [queues EXCEPT ![s] = items]
  /\ Commit
  /\ UNCHANGED <<created, task, position, directories, sending, failures, aborted,
                 holds, stopped, ticks, history, external>>

\* What every edit of an existing queue does: the items leave, the rest stays.
Edit(s, items) ==
  /\ SetQueueItems(s, items, "cancelled")
  /\ Commit
  /\ UNCHANGED <<created, task, position, sending, failures, aborted, holds,
                 stopped, ticks, admitted, lost, external>>

\* Mutant: the item in flight may be removed.
RemoveInFlight(s, i) ==
  /\ Happens("remove")
  /\ i \in queues[s]
  /\ Edit(s, queues[s] \ {i})
  /\ UNCHANGED timers

Remove(s, i) ==
  /\ Happens("remove")
  /\ i \in queues[s] /\ sending[s] # i
  /\ Edit(s, queues[s] \ {i})
  /\ UNCHANGED timers

\* take: as Remove, for an ordinary item, which goes back to the client.
Take(s, i) ==
  /\ Happens("take")
  /\ i \in queues[s] /\ sending[s] # i /\ task[i] = NoTask
  /\ Edit(s, queues[s] \ {i})
  /\ UNCHANGED timers

TakeAll(s) ==
  LET taken == {i \in queues[s] : i # sending[s] /\ task[i] = NoTask} IN
  /\ Happens("takeAll")
  /\ taken # {}
  /\ Edit(s, queues[s] \ taken)
  /\ UNCHANGED timers

Clear(s) ==
  /\ Happens("clear")
  /\ revision < MaxRevision
  /\ queues[s] # {}
  /\ Edit(s, {i \in queues[s] : i = sending[s]})
  /\ Disarm(s)

Permute(s) ==
  \E p \in [queues[s] -> {position[i] : i \in queues[s]}] :
    /\ \A i, j \in queues[s] : p[i] = p[j] => i = j
    /\ position' = [i \in Ids |-> IF i \in queues[s] THEN p[i] ELSE position[i]]

\* Mutant: a reorder is not a new revision.
ReorderUncommitted(s) ==
  /\ Happens("reorder")
  /\ queues[s] # {}
  /\ Permute(s)
  /\ UNCHANGED <<created, task, queues, directories, revision, loopVars, history, external>>

Reorder(s) ==
  /\ Happens("reorder")
  /\ revision < MaxRevision
  /\ queues[s] # {}
  /\ Permute(s)
  /\ Commit
  /\ UNCHANGED <<created, task, queues, directories, loopVars, history, external>>

\* Mutant: what is in flight is cancelled too.
CancelledInFlight(k, s) == {i \in queues[s] : task[i] = k}

\* Disable, delete or retarget of task k; an item in flight stays.
Cancelled(k, s) == {i \in queues[s] : task[i] = k /\ sending[s] # i}
Affected(k)     == {s \in Sessions : Cancelled(k, s) # {}}

CancelScheduledTask(k) ==
  /\ Happens("cancel")
  /\ Affected(k) # {}
  /\ queues' = [s \in Sessions |-> queues[s] \ Cancelled(k, s)]
  /\ Report(UNION {Cancelled(k, s) : s \in Sessions}, "cancelled")
  /\ directories' = directories \cup Affected(k)
  /\ ArmAll(Affected(k))
  /\ revision' = revision + Cardinality(Affected(k))
  /\ UNCHANGED <<created, task, position, sending, failures, aborted, holds,
                 stopped, ticks, admitted, lost, external>>

SetHold(s) ==
  /\ Happens("hold")
  /\ holds' = holds \cup {s}
  /\ Disarm(s)
  /\ UNCHANGED <<queueVars, sending, failures, aborted, stopped, ticks, history, external>>

ReleaseHold(s) ==
  /\ Happens("hold")
  /\ holds' = holds \ {s}
  /\ UNCHANGED queueVars
  /\ Arm(s)
  /\ UNCHANGED <<sending, failures, aborted, stopped, ticks, history, external>>

Stop ==
  /\ Happens("stop")
  /\ ~stopped
  /\ stopped' = TRUE
  /\ timers' = {}
  /\ UNCHANGED <<queueVars, sending, failures, aborted, holds, ticks, history, external>>

-----------------------------------------------------------------------------
(* Clocks: the windows close by themselves, and nothing is armed by it. *)

AbortWindowEnds(s) ==
  /\ s \in aborted
  /\ aborted' = aborted \ {s}
  /\ UNCHANGED <<queueVars, sending, timers, failures, holds, stopped, ticks, history, external>>

BackoffEnds(s) ==
  /\ failures[s] # NoId
  /\ failures' = [failures EXCEPT ![s] = NoId]
  /\ UNCHANGED <<queueVars, sending, timers, aborted, holds, stopped, ticks, history, external>>

HoldExpires(s) ==
  /\ Happens("holdExpiry")
  /\ s \in holds
  /\ holds' = holds \ {s}
  /\ UNCHANGED <<queueVars, sending, timers, failures, aborted, stopped, ticks, history, external>>

-----------------------------------------------------------------------------
(* The dispatch loop *)

Refused(s) == queues[s] = {} \/ sending[s] # NoId \/ s \in holds

\* The timer fires and the tick returns at its first guard.
TimerIgnored(s) ==
  /\ s \in timers
  /\ Refused(s)
  /\ Disarm(s)
  /\ UNCHANGED <<queueVars, sending, failures, aborted, holds, stopped, ticks, history, external>>

\* The timer fires and the tick asks for the active sessions.  Inside the
\* abort window or the head's backoff it re-arms instead: no step.
TickBegins(t, s) ==
  /\ s \in timers
  /\ ~Refused(s)
  /\ s \notin aborted
  /\ ticks[t] = Idle
  /\ \E head \in queues[s] :
       /\ IsHead(s, head)
       /\ failures[s] # head
       /\ ticks' = [ticks EXCEPT ![t] = [phase |-> "active", session |-> s, item |-> head]]
  /\ failures' = [failures EXCEPT ![s] = NoId]
  /\ Disarm(s)
  /\ UNCHANGED <<queueVars, sending, aborted, holds, stopped, history, external>>

\* isSessionIdle, first request: a listed session is busy and the tick ends.
ProbeActive(t, s, i) ==
  /\ Running(t, s, i, {"active"})
  /\ IF turn[s] = "listed" THEN Finish(t) ELSE Goto(t, "tail")
  /\ UNCHANGED <<queueVars, sending, timers, failures, aborted, holds, stopped, history, external>>

\* Mutant: the active list alone decides.
ProbeTailSkipped(t, s, i) ==
  /\ Running(t, s, i, {"tail"})
  /\ Goto(t, "subagents")
  /\ UNCHANGED <<queueVars, sending, timers, failures, aborted, holds, stopped, history, external>>

\* isSessionIdle, second request: an unfinished reply of this runtime's
\* lifetime is a running turn.
ProbeTail(t, s, i) ==
  /\ Running(t, s, i, {"tail"})
  /\ turn[s] # "gone"
  /\ \/ turn[s] = "streaming" /\ Finish(t)
     \/ turn[s] = "listed" /\ Finish(t)          \* its reply has started
     \/ turn[s] # "streaming" /\ Goto(t, "subagents") \* or not yet
  /\ UNCHANGED <<queueVars, sending, timers, failures, aborted, holds, stopped, history, external>>

\* Mutant: a failed probe is not tried again.
ProbeFailsForGood(t, s, i) ==
  /\ Running(t, s, i, {"active", "tail"})
  /\ Happens("probeFails") \/ (ticks[t].phase = "tail" /\ turn[s] = "gone")
  /\ Finish(t)
  /\ UNCHANGED <<queueVars, sending, timers, failures, aborted, holds, stopped, history, external>>

\* Idleness could not be established: a scheduled head is validated, any other
\* retried.
ProbeFails(t, s, i) ==
  /\ Running(t, s, i, {"active", "tail"})
  /\ Happens("probeFails") \/ (ticks[t].phase = "tail" /\ turn[s] = "gone")
  /\ UNCHANGED queueVars
  /\ IF task[i] # NoTask
     THEN Goto(t, "validate") /\ UNCHANGED timers
     ELSE Finish(t) /\ Arm(s)
  /\ UNCHANGED <<sending, failures, aborted, holds, stopped, history, external>>

\* validateScheduledTaskTarget answers; 404 and 409 drop the head as failed.
TargetRefused(t, s, i) ==
  /\ Running(t, s, i, {"validate"})
  /\ Happens("refuse") \/ turn[s] = "gone"
  /\ DropFromQueue(s, i, "failed")
  /\ Commit
  /\ Arm(s)
  /\ Finish(t)
  /\ UNCHANGED <<created, task, position, sending, failures, aborted, holds,
                 stopped, admitted, lost, external>>

TargetValid(t, s, i) ==
  /\ Running(t, s, i, {"validate"})
  /\ UNCHANGED queueVars
  /\ Arm(s)
  /\ Finish(t)
  /\ UNCHANGED <<sending, failures, aborted, holds, stopped, history, external>>

\* hasWorkingSubagents: only descendants count, the session itself is skipped.
ProbeSubagents(t, s, i) ==
  /\ Running(t, s, i, {"subagents"})
  /\ UNCHANGED queueVars
  /\ \/ /\ turn[s] = "subagent" \/ Happens("probeFails")
        /\ Finish(t) /\ Arm(s)
     \/ turn[s] # "subagent" /\ Goto(t, "ready") /\ UNCHANGED timers
  /\ UNCHANGED <<sending, failures, aborted, holds, stopped, history, external>>

\* Mutant: the claim of another tick is not looked at again.
LaunchUnclaimed(t, s, i) ==
  /\ Running(t, s, i, {"ready"})
  /\ IsHead(s, i)
  /\ sending' = [sending EXCEPT ![s] = i]
  /\ Goto(t, IF task[i] # NoTask THEN "before" ELSE "prepare")
  /\ UNCHANGED <<queueVars, timers, failures, aborted, holds, stopped, history, external>>

\* The continuation after the last answer re-reads the queue and claims the head.
Launch(t, s, i) ==
  /\ Running(t, s, i, {"ready"})
  /\ IsHead(s, i)
  /\ sending[s] = NoId
  /\ sending' = [sending EXCEPT ![s] = i]
  /\ Goto(t, IF task[i] # NoTask THEN "before" ELSE "prepare")
  /\ UNCHANGED <<queueVars, timers, failures, aborted, holds, stopped, history, external>>

GiveUp(t, s, i) ==
  /\ Running(t, s, i, {"ready"})
  /\ ~IsHead(s, i) \/ sending[s] # NoId
  /\ Finish(t)
  /\ UNCHANGED <<queueVars, sending, timers, failures, aborted, holds, stopped, history, external>>

\* Mutant: nothing is armed for the retry.
SendFailedUnarmed(t, s, i) ==
  /\ sending' = [sending EXCEPT ![s] = NoId]
  /\ failures' = [failures EXCEPT ![s] = i]
  /\ Finish(t)
  /\ UNCHANGED <<queueVars, timers, aborted, holds, stopped>>

\* The catch of the send: the item stays and its backoff starts.
SendFailed(t, s, i) ==
  /\ sending' = [sending EXCEPT ![s] = NoId]
  /\ failures' = [failures EXCEPT ![s] = i]
  /\ UNCHANGED queueVars
  /\ Arm(s)
  /\ Finish(t)
  /\ UNCHANGED <<aborted, holds, stopped>>

\* beforeScheduledTaskSend lets the item through, or
BeforeSendPasses(t, s, i) ==
  /\ Running(t, s, i, {"before"})
  /\ Goto(t, "prepare")
  /\ UNCHANGED <<queueVars, sending, timers, failures, aborted, holds, stopped, history, external>>

\* refuses it with 404 or 409 (any other error is a failed send).
BeforeSendRefuses(t, s, i) ==
  /\ Running(t, s, i, {"before"})
  /\ Happens("refuse") \/ turn[s] = "gone"
  /\ sending' = [sending EXCEPT ![s] = NoId]
  /\ DropFromQueue(s, i, "failed")
  /\ failures' = [failures EXCEPT ![s] = NoId]
  /\ Commit
  /\ Arm(s)
  /\ Finish(t)
  /\ UNCHANGED <<created, task, position, aborted, holds, stopped, admitted, lost, external>>

\* sendItem up to the prompt: routing, model and agent switch, command lookup,
\* project knowledge and captured context.
Prepare(t, s, i) ==
  /\ Running(t, s, i, {"prepare"})
  /\ turn[s] # "gone"
  /\ Goto(t, "prompt")
  /\ UNCHANGED <<queueVars, sending, timers, failures, aborted, holds, stopped, history, external>>

\* Any request of the send fails before OpenCode admits the prompt.
SendFails(t, s, i) ==
  /\ Running(t, s, i, {"before", "prepare", "prompt"})
  /\ Happens("sendFails") \/ turn[s] = "gone"
  /\ SendFailed(t, s, i)
  /\ UNCHANGED <<history, external>>

\* OpenCode admits the prompt: it starts a turn, or steers the running one.
PromptAdmitted(t, s, i) ==
  /\ Running(t, s, i, {"prompt"})
  /\ turn[s] # "gone"
  /\ admitted' = [admitted EXCEPT ![i] = @ + 1]
  /\ Goto(t, "answer")
  /\ IF turn[s] \in Quiet \cup {"subagent"}
     THEN turn' = [turn EXCEPT ![s] = "listed"] /\ Emit("busy", s)
     ELSE UNCHANGED external
  /\ UNCHANGED <<queueVars, sending, timers, failures, aborted, holds, stopped, reports, lost>>

\* Mutant: the claim is released but the item stays queued.
SendSucceedsKeepingItem(t, s, i) ==
  /\ Running(t, s, i, {"answer"})
  /\ sending' = [sending EXCEPT ![s] = NoId]
  /\ Finish(t)
  /\ UNCHANGED <<queueVars, timers, failures, aborted, holds, stopped, history, external>>

\* The success path of the tick.
SendSucceeds(t, s, i) ==
  /\ Running(t, s, i, {"answer"})
  /\ DropFromQueue(s, i, "sent")
  /\ failures' = [failures EXCEPT ![s] = NoId]
  /\ sending' = [sending EXCEPT ![s] = NoId]
  /\ Commit
  /\ Finish(t)
  /\ UNCHANGED <<created, task, position, timers, aborted, holds, stopped, admitted, lost, external>>

\* The response to an admitted prompt is lost or times out.
ResponseLost(t, s, i) ==
  /\ Happens("responseLost")
  /\ Running(t, s, i, {"answer"})
  /\ admitted[i] <= MaxAdmits
  /\ lost' = lost \cup {i}
  /\ SendFailed(t, s, i)
  /\ UNCHANGED <<reports, admitted, external>>

-----------------------------------------------------------------------------
(* Hub events.  One wire event is translated and processed synchronously. *)

DropDeletedSession(s) ==
  /\ queues' = [queues EXCEPT ![s] = {}]
  /\ Report(queues[s], "cancelled")
  /\ directories' = directories \ {s}
  /\ Disarm(s)
  /\ failures' = [failures EXCEPT ![s] = NoId]
  /\ Commit
  /\ UNCHANGED <<created, task, position, aborted>>

ProcessPayload(type, s) ==
  \/ /\ type = "deleted"
     /\ DropDeletedSession(s)
  \/ /\ type = "busy"
     /\ Disarm(s)
     /\ UNCHANGED <<queueVars, reports, failures, aborted>>
  \/ /\ type = "idle"
     /\ UNCHANGED <<queueVars, reports, failures, aborted>>
     /\ Arm(s)
  \/ /\ type = "aborted"          \* an idle status and an aborted session.idle
     /\ UNCHANGED <<queueVars, reports, failures>>
     /\ Arm(s)
     /\ aborted' = aborted \cup {s}
  \/ /\ type = "completed"        \* arms only where no timer runs
     /\ UNCHANGED <<queueVars, reports, failures, aborted>>
     /\ Arm(s)

DeliverEvent ==
  /\ events # <<>>
  /\ events' = Tail(events)
  /\ LET s == Head(events).session IN
     IF stopped \/ queues[s] = {}
     THEN UNCHANGED <<queueVars, timers, failures, aborted, reports>>
     ELSE ProcessPayload(Head(events).type, s)
  /\ UNCHANGED <<sending, holds, stopped, ticks, admitted, lost, turn>>

\* The hub reconnects: what it had not delivered is lost, reconcileAll arms.
Reconnect ==
  /\ Happens("reconnect")
  /\ events # <<>>
  /\ events' = <<>>
  /\ UNCHANGED queueVars
  /\ ArmAll(Queued)
  /\ UNCHANGED <<sending, failures, aborted, holds, stopped, ticks, history, turn>>

-----------------------------------------------------------------------------
(* OpenCode (external) *)

Outside == UNCHANGED <<queueVars, loopVars, history>>
SetTurn(s, value) == turn' = [turn EXCEPT ![s] = value]

UserPrompt(s) ==
  /\ Happens("userPrompt")
  /\ turn[s] \in Quiet
  /\ SetTurn(s, "listed") /\ Emit("busy", s) /\ Outside

\* A reply of a turn of several steps completes while the turn goes on.
StepCompletes(s) ==
  /\ Happens("steps")
  /\ turn[s] = "listed"
  /\ Emit("completed", s) /\ UNCHANGED turn /\ Outside

\* The turn leaves the active list while its reply still streams.
Unlisted(s) ==
  /\ Happens("unlisted")
  /\ turn[s] = "listed"
  /\ SetTurn(s, "streaming") /\ UNCHANGED events /\ Outside

\* Unless "slow", the response to a prompt comes before its turn ends.
Answered(s) ==
  Happens("slow") \/ \A t \in Ticks, i \in Ids : ~Running(t, s, i, {"answer"})

TurnEnds(s) ==
  /\ turn[s] \in {"listed", "streaming"}
  /\ Answered(s)
  /\ \/ SetTurn(s, "idle")
     \/ Happens("subagent") /\ SetTurn(s, "subagent")
  /\ Emit("idle", s) /\ Outside

\* The background subagent hands its result back and the parent runs again.
SubagentReturns(s) ==
  /\ turn[s] = "subagent"
  /\ SetTurn(s, "listed") /\ Emit("busy", s) /\ Outside

UserAborts(s) ==
  /\ Happens("abort")
  /\ turn[s] = "listed"
  /\ Answered(s)
  /\ SetTurn(s, "idle") /\ Emit("aborted", s) /\ Outside

SessionDeleted(s) ==
  /\ Happens("delete")
  /\ turn[s] # "gone"
  /\ SetTurn(s, "gone") /\ Emit("deleted", s) /\ Outside

-----------------------------------------------------------------------------
Mutations ==
  \/ \E s \in Sessions, k \in Tasks \cup {NoTask} : Enqueue(s, k)
  \/ \E s \in Sessions : TakeAll(s) \/ Clear(s) \/ Reorder(s)
  \/ \E s \in Sessions : SetHold(s) \/ ReleaseHold(s)
  \/ \E s \in Sessions, i \in Ids : Remove(s, i) \/ Take(s, i)
  \/ \E k \in Tasks : CancelScheduledTask(k)
  \/ Stop

Clocks == \E s \in Sessions :
  TimerIgnored(s) \/ AbortWindowEnds(s) \/ BackoffEnds(s) \/ HoldExpires(s)

Probes(t, s, i) ==
  \/ ProbeActive(t, s, i) \/ ProbeTail(t, s, i) \/ ProbeSubagents(t, s, i)
  \/ ProbeFails(t, s, i) \/ TargetRefused(t, s, i) \/ TargetValid(t, s, i)
  \/ GiveUp(t, s, i)

Sends(t, s, i) ==
  \/ Launch(t, s, i) \/ BeforeSendPasses(t, s, i) \/ BeforeSendRefuses(t, s, i)
  \/ Prepare(t, s, i) \/ SendFails(t, s, i) \/ PromptAdmitted(t, s, i)
  \/ SendSucceeds(t, s, i) \/ ResponseLost(t, s, i)

Loop == \E t \in Ticks, s \in Sessions :
  TickBegins(t, s) \/ \E i \in Ids : Probes(t, s, i) \/ Sends(t, s, i)

Hub == DeliverEvent \/ Reconnect

OpenCode == \E s \in Sessions :
  \/ UserPrompt(s) \/ StepCompletes(s) \/ Unlisted(s) \/ TurnEnds(s)
  \/ SubagentReturns(s) \/ UserAborts(s) \/ SessionDeleted(s)

Next == Mutations \/ Clocks \/ Loop \/ Hub \/ OpenCode

Spec == Init /\ [][Next]_vars

-----------------------------------------------------------------------------
(* Safety *)

\* `sending` is the lock of a session: whatever order overlapping ticks, edits
\* and hub events come in, a tick past the claim owns the claim of its session
\* alone, and a claim never outlives its tick (it would strand the queue).
OneSendPerSession ==
  /\ \A t \in Ticks : InFlight(t) => sending[ticks[t].session] = ticks[t].item
  /\ \A t, u \in Ticks : InFlight(t) /\ InFlight(u)
                         /\ ticks[t].session = ticks[u].session => t = u
  /\ \A s \in Sessions : sending[s] # NoId =>
       \E t \in Ticks : InFlight(t) /\ ticks[t].session = s

\* An item is prompted again only after OpenCode's answer to an earlier
\* prompt of it was lost: no interleaving of ticks sends it twice.
NoDuplicateDelivery == \A i \in Ids : admitted[i] > 1 => i \in lost

\* Why no item is sent twice, as an inductive invariant: ids are used once and
\* in one session, and an item that waits unsent, or whose prompt is still to
\* go out, was never admitted unless an answer got lost.
IdsUsedOnce ==
  /\ \A s \in Sessions : queues[s] \subseteq 1 .. created
  /\ \A r, s \in Sessions : r # s => queues[r] \cap queues[s] = {}
  /\ \A t \in Ticks : InFlight(t) =>
       /\ ticks[t].item <= created
       /\ \A s \in Sessions : ticks[t].item \in queues[s] => s = ticks[t].session
  /\ \A t, u \in Ticks :
       InFlight(t) /\ InFlight(u) /\ ticks[t].item = ticks[u].item => t = u

NotYetAdmitted ==
  /\ \A i \in Ids : i > created => admitted[i] = 0
  /\ \A t \in Ticks : InFlight(t) /\ ticks[t].phase # "answer" =>
       admitted[ticks[t].item] = 0 \/ ticks[t].item \in lost
  /\ \A s \in Sessions : \A i \in queues[s] :
       \/ admitted[i] = 0
       \/ i \in lost
       \/ \E t \in Ticks : InFlight(t) /\ ticks[t].phase = "answer" /\ ticks[t].item = i

DeliveryInv == IdsUsedOnce /\ NotYetAdmitted /\ NoDuplicateDelivery

\* A scheduled item that left the queues was reported exactly once, and one
\* that waits was not: the task's state never misses or repeats a result.
ScheduledResultOnce ==
  \A i \in 1 .. created : task[i] # NoTask =>
    Len(reports[i]) = IF \E s \in Sessions : i \in queues[s] THEN 0 ELSE 1

\* The result reported for a scheduled item says what happened: "sent" of a
\* prompt OpenCode admitted; "failed" or "cancelled" of one it never saw and never
\* will - unless the answer was lost, or it is cancelled because its session was
\* deleted, in flight or not.
ScheduledResultTrue ==
  \A i \in Ids : \A n \in 1 .. Len(reports[i]) :
    IF reports[i][n] = "sent" THEN admitted[i] > 0
    ELSE \/ admitted[i] = 0 \/ i \in lost
         \/ reports[i][n] = "cancelled" /\ \E s \in Sessions : turn[s] = "gone"

\* "Enqueue deduplicates the project and task across all session queues."
OneEntryPerTask ==
  \A r, s \in Sessions : \A i \in queues[r], j \in queues[s] :
    task[i] = task[j] /\ task[i] # NoTask => i = j /\ r = s

\* A queue of an idle session always has something that will look at it again:
\* a timer, a tick at work, or an event that arms one.
NoStrandedQueue ==
  \A s \in Sessions :
    queues[s] # {} /\ turn[s] \in Quiet /\ s \notin holds /\ ~stopped =>
      \/ s \in timers
      \/ \E t \in Ticks, i \in Ids : Running(t, s, i, ProbePhases \cup FlightPhases)
      \/ \E n \in 1 .. Len(events) :
           events[n].session = s /\ events[n].type \in {"idle", "aborted", "completed"}

-----------------------------------------------------------------------------
(* Action properties *)

\* Tick t has its prompt admitted in this step.
Admits(t) ==
  /\ ticks[t] # Idle /\ ticks[t].phase = "prompt"
  /\ ticks'[t] # Idle /\ ticks'[t].phase = "answer"

\* A prompt goes out only while its item still waits in the queue: what a
\* client removed or took back, or an eviction dropped, is never sent later.
OnlyQueuedItemsPrompted ==
  [][\A t \in Ticks : Admits(t) => ticks[t].item \in queues[ticks[t].session]]_vars

\* Unless the user reorders, no item of a session is sent before an older one.
NoOvertaking ==
  [][\A t \in Ticks : Admits(t) =>
       \A i \in queues[ticks[t].session] : ticks[t].item <= i]_vars

\* A queued prompt starts the next turn and is not steered into a running one.
NoSteering ==
  [][\A t \in Ticks : Admits(t) => turn[ticks[t].session] \in Quiet]_vars

\* The item in flight leaves the queue only by the end of its own send, or
\* with the whole queue of a deleted session.
InFlightStaysQueued ==
  [][\A s \in Sessions : sending[s] \in queues[s] /\ sending[s] \notin queues'[s]
       => sending'[s] = NoId \/ directories' = directories \ {s}]_vars

\* Clients order snapshots by revision: no queue changes under an old one.
RevisionCountsEdits ==
  [][queues' # queues \/ (\E s \in Sessions : \E i \in queues[s] : position'[i] # position[i])
       => revision' > revision]_vars

\* The broadcast that removes the last item of a session names its directory.
LastBroadcastNamesDirectory ==
  [][\A s \in Queued : queues'[s] = {} => s \in directories \cup directories']_vars

-----------------------------------------------------------------------------
(* Refinement *)

Server == INSTANCE QueueServer WITH Items <- Ids, NoItem <- NoId

\* Overlapping ticks, edits and hub events together serve the queues as
\* QueueServer promises its clients.
QueueServed == Server!Spec

-----------------------------------------------------------------------------
(* Liveness.  Timers fire, requests are answered, the hub delivers, turns   *)
(* end and do not leave a subagent behind for ever; a request that may fail *)
(* does not fail every time it is retried.                                  *)

TickFairness(t) ==
  /\ WF_vars(\E s \in Sessions : TickBegins(t, s))
  /\ WF_vars(\E s \in Sessions, i \in Ids : Probes(t, s, i) \/ Sends(t, s, i))
  /\ SF_vars(\E s \in Sessions, i \in Ids : ProbeActive(t, s, i))
  /\ SF_vars(\E s \in Sessions, i \in Ids : ProbeTail(t, s, i))
  /\ SF_vars(\E s \in Sessions, i \in Ids : ProbeSubagents(t, s, i) /\ ticks'[t] # Idle)
  /\ SF_vars(\E s \in Sessions, i \in Ids : BeforeSendPasses(t, s, i))
  /\ SF_vars(\E s \in Sessions, i \in Ids : Prepare(t, s, i))
  /\ SF_vars(\E s \in Sessions, i \in Ids : PromptAdmitted(t, s, i))
  /\ SF_vars(\E s \in Sessions, i \in Ids : SendSucceeds(t, s, i))

SessionFairness(s) ==
  /\ WF_vars(TimerIgnored(s)) /\ WF_vars(AbortWindowEnds(s))
  /\ WF_vars(BackoffEnds(s)) /\ WF_vars(HoldExpires(s))
  /\ WF_vars(TurnEnds(s)) /\ WF_vars(SubagentReturns(s))
  /\ SF_vars(TurnEnds(s) /\ turn'[s] = "idle")

LiveSpec ==
  /\ Spec
  /\ WF_vars(DeliverEvent)
  /\ \A t \in Ticks : TickFairness(t)
  /\ \A s \in Sessions : SessionFairness(s)

\* Every queued message eventually leaves its queue, with nobody watching.
EventuallyLeaves ==
  \A s \in Sessions, i \in Ids : i \in queues[s] ~> i \notin queues[s]

=============================================================================
