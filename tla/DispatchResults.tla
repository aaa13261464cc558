--------------------------- MODULE DispatchResults ---------------------------
(***************************************************************************)
(* Results of dispatched sessions (packages/web/server/lib/                *)
(* dispatch-results/runtime.js): an agent dispatches a prompt to another   *)
(* session and asks to hear back; when that session's turn is over, its    *)
(* answer is admitted once into the session that dispatched it, across     *)
(* failed requests, lost answers, late requests and restarts.              *)
(*                                                                         *)
(* An entry is its id, in the order of dispatch (dispatchedAt).  The       *)
(* records of a session are abstracted to how many runs have ended: the    *)
(* newest idle record is that number, and an answer is the number of the   *)
(* run it belongs to.  A message id is a number minted in order.  Delays   *)
(* are abstracted: an armed timer fires some time later.                   *)
(***************************************************************************)
EXTENDS Naturals, Sequences, FiniteSets

CONSTANTS
  Sessions,         \* OpenCode sessions, dispatching or dispatched
  MAX_ENTRIES,
  SETTLE_RECHECKS,
  Behaviours,       \* the optional steps of faults, users and OpenCode that happen
  MaxDispatches,    \* bound: dispatches ever made
  MaxRuns,          \* bound: runs of one session
  MaxEvents,        \* bound: hub events not yet delivered
  MaxCrashes        \* bound: crashes of the server

ASSUME DispatchBounds ==
  /\ MAX_ENTRIES \in Nat \ {0} /\ SETTLE_RECHECKS \in Nat
  /\ MaxDispatches \in Nat /\ MaxRuns \in Nat
  /\ MaxEvents \in Nat /\ MaxCrashes \in Nat

Ids == 1 .. MaxDispatches
NoMessage == 0
NotStarted == 0

Stages == {"new", "baseline", "prompted", "registering", "registered", "failed"}
Waiters == [register : Ids] \cup [tick : Sessions]
NoWaiter == [none |-> TRUE]

\* A tick: asking for activity, hearing that the session runs, reading the
\* records, looking through the entries, then entry by entry of `todo` waiting
\* for the write of its message id, for the answer to the request, and for the
\* write of its removal.
Phases == {"activity", "running", "records", "loop",
           "minting", "request", "answer", "removing"}
Asleep == [phase |-> "none"]

VARIABLES
  \* the runtime
  server,       \* "down", "loading" or "up"
  entries,      \* pending results in memory
  message,      \* messageId of an entry in memory
  timers,       \* watched sessions with an armed timer
  settleChecks,
  tick,         \* the tick of each watched session (`ticking`)
  writes,       \* the write chain
  disk,         \* the file: entries and their message ids
  \* the control service
  stage,        \* how far each dispatch got
  route,        \* its [parent, session]
  afterIdle,    \* the newest idle record before its prompt went out
  \* OpenCode (external)
  turn,         \* "idle", "running", "subagent" (idle, a child runs) or "gone"
  runs,         \* runs of a session that have ended
  records,      \* idle records a read of the session returns
  unstarted,    \* admitted prompts whose run has not started
  turnOf,       \* the run that works on a dispatched prompt
  admitted,     \* synthetic messages admitted for each dispatch
  network,      \* requests given up on that may still arrive
  events,       \* hub events on their way
  \* history
  minted, crashes, evicted,
  forsaken      \* results that a tick gave up while their record was still to come

runtime  == <<server, entries, message, timers, settleChecks, tick>>
storage  == <<writes, disk>>
dispatch == <<stage, route, afterIdle>>
opencode == <<turn, runs, records, unstarted, turnOf, events>>
inbox    == <<admitted, network>>
history  == <<minted, crashes, evicted, forsaken>>
vars     == <<runtime, storage, dispatch, opencode, inbox, history>>

\* An entry gets an id again only after a crash that lost the first one.
Messages == 0 .. MaxDispatches * (MaxCrashes + 1)
File == [entries : SUBSET Ids, message : [Ids -> Messages]]
Request == [id : Ids, message : Messages, run : 0 .. MaxRuns, deleted : BOOLEAN]

\* What runtime, file and OpenCode hold; message ids stay within one per result
\* and crash, however often a request is tried again.
TypeOK ==
  /\ server \in {"down", "loading", "up"}
  /\ entries \subseteq Ids
  /\ message \in [Ids -> Messages]
  /\ timers \subseteq Sessions
  /\ settleChecks \in [Sessions -> 0 .. SETTLE_RECHECKS]
  /\ tick \in [Sessions -> {Asleep} \cup
       [phase : Phases, todo : SUBSET Ids, waiting : BOOLEAN,
        run : 0 .. MaxRuns, deleted : BOOLEAN]]
  /\ disk \in File
  /\ writes \in Seq([file : File, waiter : Waiters \cup {NoWaiter}])
  /\ stage \in [Ids -> Stages]
  /\ route \in [Ids -> [parent : Sessions, session : Sessions]]
  /\ afterIdle \in [Ids -> 0 .. MaxRuns]
  /\ turn \in [Sessions -> {"idle", "running", "subagent", "gone"}]
  /\ runs \in [Sessions -> 0 .. MaxRuns]
  /\ records \in [Sessions -> 0 .. MaxRuns]
  /\ unstarted \subseteq Ids
  /\ turnOf \in [Ids -> 0 .. MaxRuns]
  /\ admitted \in [Ids -> Seq(Request)]
  /\ network \subseteq Request
  /\ events \in Seq([type : {"busy", "idle", "deleted"}, session : Sessions])
  /\ minted \in Messages /\ crashes \in 0 .. MaxCrashes
  /\ evicted \subseteq Ids /\ forsaken \subseteq Ids

Happens(behaviour) == behaviour \in Behaviours

Init ==
  /\ server = "up"
  /\ entries = {} /\ message = [e \in Ids |-> NoMessage]
  /\ timers = {} /\ settleChecks = [s \in Sessions |-> 0]
  /\ tick = [s \in Sessions |-> Asleep]
  /\ writes = <<>>
  /\ disk = [entries |-> {}, message |-> [e \in Ids |-> NoMessage]]
  /\ stage = [e \in Ids |-> "new"]
  /\ route \in [Ids -> {r \in [parent : Sessions, session : Sessions] : r.parent # r.session}]
  /\ afterIdle = [e \in Ids |-> 0]
  /\ turn \in [Sessions -> {"idle", "running"}]
  /\ runs = [s \in Sessions |-> 0] /\ records = runs
  /\ unstarted = {} /\ turnOf = [e \in Ids |-> NotStarted]
  /\ admitted = [e \in Ids |-> <<>>] /\ network = {}
  /\ events = <<>>
  /\ minted = 0 /\ crashes = 0 /\ evicted = {} /\ forsaken = {}

-----------------------------------------------------------------------------
(* Helpers *)

PendingFor(s, items) == {e \in items : route[e].session = s}
Oldest(items) == CHOOSE e \in items : \A f \in items : e <= f

\* arm: nothing without a pending result; the entries after the step count.
Armed(s) == IF PendingFor(s, entries') = {} THEN timers ELSE timers \cup {s}
Arm(s)    == timers' = Armed(s)
Disarm(s) == timers' = timers \ {s}

\* persist: the payload is serialized now and written behind the others of the
\* chain; the waiter goes on when its write has ended.
Saved(items, ids) == [entries |-> items,
                      message |-> [e \in Ids |-> IF e \in items THEN ids[e] ELSE NoMessage]]
Persist(chain, waiter) ==
  writes' = Append(chain, [file |-> Saved(entries', message'), waiter |-> waiter])

Emit(type, s) ==
  IF server = "down" THEN events' = events
  ELSE /\ Len(events) < MaxEvents
       /\ events' = Append(events, [type |-> type, session |-> s])

TickIn(s, phase) == tick[s] # Asleep /\ tick[s].phase = phase
TickEnds(s)      == tick' = [tick EXCEPT ![s] = Asleep]

\* Mutant: a failed tick is not tried again.
GiveUpTick(s)    == TickEnds(s) /\ UNCHANGED timers
RetryLater(s)    == TickEnds(s) /\ Arm(s)

-----------------------------------------------------------------------------
(* The control service: baseline, prompt, register *)

DispatchBegins(e) ==
  /\ server = "up"
  /\ stage[e] = "new" /\ \A f \in Ids : f < e => stage[f] # "new"
  /\ turn[route[e].session] # "gone"
  /\ stage' = [stage EXCEPT ![e] = "baseline"]
  /\ afterIdle' = [afterIdle EXCEPT ![e] = records[route[e].session]]
  /\ UNCHANGED <<runtime, storage, route, opencode, inbox, history>>

\* The prompt is admitted: the running turn works on it, or one starts, at
\* once unless "startsLater".
PromptLands(e) ==
  LET s == route[e].session IN
  /\ stage[e] = "baseline" /\ turn[s] # "gone" /\ runs[s] < MaxRuns
  /\ stage' = [stage EXCEPT ![e] = "prompted"]
  /\ \/ /\ turn[s] # "running" /\ Happens("startsLater")
        /\ unstarted' = unstarted \cup {e}
        /\ UNCHANGED <<turn, turnOf, events>>
     \/ /\ turn[s] = "running" \/ ~Happens("startsLater")
        /\ turnOf' = [turnOf EXCEPT ![e] = runs[s] + 1]
        /\ IF turn[s] = "running" THEN UNCHANGED <<turn, events>>
           ELSE turn' = [turn EXCEPT ![s] = "running"] /\ Emit("busy", s)
        /\ UNCHANGED unstarted
  /\ UNCHANGED <<runtime, storage, route, afterIdle, runs, records, inbox, history>>

\* The MAX_ENTRIES that stay: the new one and the youngest of the others.
Kept(items, e) ==
  {f \in items : f = e \/ Cardinality({g \in items \ {e} : g >= f}) < MAX_ENTRIES}

\* Mutant: the call answers before the entry is written.
RegisterUnwritten(e) ==
  /\ stage[e] = "prompted"
  /\ stage' = [stage EXCEPT ![e] = "registered"]
  /\ entries' = Kept(entries \cup {e}, e)
  /\ evicted' = evicted \cup (entries \ entries')
  /\ UNCHANGED message
  /\ Persist(writes, NoWaiter)
  /\ Arm(route[e].session)
  /\ UNCHANGED <<server, settleChecks, tick, disk, route, afterIdle,
                 opencode, inbox, minted, crashes, forsaken>>

Register(e) ==
  /\ stage[e] = "prompted"
  /\ stage' = [stage EXCEPT ![e] = "registering"]
  /\ entries' = Kept(entries \cup {e}, e)
  /\ evicted' = evicted \cup (entries \ entries')
  /\ UNCHANGED message
  /\ Persist(writes, [register |-> e])
  /\ UNCHANGED <<server, timers, settleChecks, tick, disk, route, afterIdle,
                 opencode, inbox, minted, crashes, forsaken>>

-----------------------------------------------------------------------------
(* The delivery loop *)

\* Mutant: a timer that fires while a tick works is used up.
TickBeginsOnce(s) ==
  /\ s \in timers
  /\ Disarm(s)
  /\ tick' = IF tick[s] # Asleep \/ PendingFor(s, entries) = {} THEN tick
             ELSE [tick EXCEPT ![s] = [phase |-> "activity", todo |-> {},
                    waiting |-> FALSE, run |-> 0, deleted |-> FALSE]]
  /\ UNCHANGED <<server, entries, message, settleChecks, storage, dispatch, opencode, inbox, history>>

\* The timer fires; while another tick works it is armed again: no step.
TickBegins(s) ==
  /\ s \in timers
  /\ tick[s] = Asleep
  /\ Disarm(s)
  /\ tick' = IF PendingFor(s, entries) = {} THEN tick
             ELSE [tick EXCEPT ![s] = [phase |-> "activity", todo |-> {},
                    waiting |-> FALSE, run |-> 0, deleted |-> FALSE]]
  /\ UNCHANGED <<server, entries, message, settleChecks, storage, dispatch, opencode, inbox, history>>

\* Mutant: a running session is not waited for.
ReadActivityUnchecked(s) ==
  /\ TickIn(s, "activity")
  /\ tick' = [tick EXCEPT ![s].phase = "records"]
  /\ UNCHANGED <<server, entries, message, timers, settleChecks, storage, dispatch,
                 opencode, inbox, history>>

\* OpenCode answers about activity, of the session and its children at once;
ReadActivity(s) ==
  /\ TickIn(s, "activity")
  /\ UNCHANGED entries
  /\ \/ /\ turn[s] = "running"
        /\ tick' = [tick EXCEPT ![s].phase = "running"] /\ UNCHANGED timers
     \/ turn[s] = "subagent" /\ RetryLater(s)
     \/ /\ turn[s] \in {"idle", "gone"}
        /\ tick' = [tick EXCEPT ![s].phase = "records"] /\ UNCHANGED timers
  /\ UNCHANGED <<server, message, settleChecks, storage, dispatch, opencode, inbox, history>>

\* a tick that hears, by now perhaps wrongly, that the session runs is over.
HearsRunning(s) ==
  /\ TickIn(s, "running")
  /\ TickEnds(s)
  /\ UNCHANGED <<server, entries, message, timers, settleChecks, storage, dispatch,
                 opencode, inbox, history>>

ReadFails(s) ==
  /\ Happens("readFails")
  /\ TickIn(s, "activity") \/ TickIn(s, "records")
  /\ UNCHANGED entries
  /\ RetryLater(s)
  /\ UNCHANGED <<server, message, settleChecks, storage, dispatch, opencode, inbox, history>>

\* Where the tick is once its loop is over.
LoopEnds(s, step) ==
  /\ TickEnds(s)
  /\ IF step.waiting /\ settleChecks[s] < SETTLE_RECHECKS
     THEN settleChecks' = [settleChecks EXCEPT ![s] = @ + 1] /\ Arm(s)
     ELSE /\ settleChecks' = IF step.waiting THEN settleChecks
                             ELSE [settleChecks EXCEPT ![s] = 0]
          /\ UNCHANGED timers

\* Mutants: the id is minted but not written; it is minted for every attempt.
NextEntryUnwritten(s, step, chain) ==
  /\ writes' = chain
  /\ IF step.todo # {}
     THEN /\ IF message[Oldest(step.todo)] = NoMessage
             THEN minted' = minted + 1 /\ message' = [message EXCEPT ![Oldest(step.todo)] = minted']
             ELSE UNCHANGED <<minted, message>>
          /\ tick' = [tick EXCEPT ![s] = [step EXCEPT !.phase = "request"]]
          /\ UNCHANGED <<timers, settleChecks>>
     ELSE LoopEnds(s, step) /\ UNCHANGED <<minted, message>>

NextEntryMintsAgain(s, step, chain) ==
  IF step.todo # {}
  THEN /\ minted' = minted + 1
       /\ message' = [message EXCEPT ![Oldest(step.todo)] = minted']
       /\ tick' = [tick EXCEPT ![s] = [step EXCEPT !.phase = "minting"]]
       /\ Persist(chain, [tick |-> s])
       /\ UNCHANGED <<timers, settleChecks>>
  ELSE LoopEnds(s, step) /\ writes' = chain /\ UNCHANGED <<minted, message>>

\* The loop goes to its next entry, or ends.  A message id is minted and
\* persisted before the first attempt, and reused by every later one.
NextEntry(s, step, chain) ==
  \/ /\ step.todo # {}
     /\ message[Oldest(step.todo)] = NoMessage
     /\ minted' = minted + 1
     /\ message' = [message EXCEPT ![Oldest(step.todo)] = minted']
     /\ tick' = [tick EXCEPT ![s] = [step EXCEPT !.phase = "minting"]]
     /\ Persist(chain, [tick |-> s])
     /\ UNCHANGED <<timers, settleChecks>>
  \/ /\ step.todo # {}
     /\ message[Oldest(step.todo)] # NoMessage
     /\ tick' = [tick EXCEPT ![s] = [step EXCEPT !.phase = "request"]]
     /\ writes' = chain
     /\ UNCHANGED <<minted, message, timers, settleChecks>>
  \/ /\ step.todo = {}
     /\ LoopEnds(s, step)
     /\ writes' = chain
     /\ UNCHANGED <<minted, message>>

\* What the records of the session say of entry e (readDispatchOutcome).
HasOutcome(e, run) == run # afterIdle[e]

\* What a tick without a recheck left gives up: what it reads is no outcome of it,
\* while the record of a later run is still to come.
GivenUp(s) ==
  {e \in PendingFor(s, entries) : /\ settleChecks[s] = SETTLE_RECHECKS
                                  /\ turn[s] = "idle" /\ records[s] # runs[s]
                                  /\ ~HasOutcome(e, records[s])}

\* The page of records is read as it is, be it behind the runs or not.
ReadRecords(s) ==
  /\ TickIn(s, "records")
  /\ forsaken' = forsaken \cup GivenUp(s)
  /\ tick' = [tick EXCEPT ![s].phase = "loop", ![s].run = records[s],
                          ![s].deleted = turn[s] = "gone"]
  /\ UNCHANGED <<server, entries, message, timers, settleChecks, storage, dispatch,
                 opencode, inbox, minted, crashes, evicted>>

\* What was read is applied to the entries that are pending by now.
LoopBegins(s) ==
  LET pending == PendingFor(s, entries)
      ready == {e \in pending : tick[s].deleted \/ HasOutcome(e, tick[s].run)}
  IN
  /\ TickIn(s, "loop")
  /\ UNCHANGED entries
  /\ NextEntry(s, [tick[s] EXCEPT !.todo = ready, !.waiting = ready # pending], writes)
  /\ UNCHANGED <<server, disk, dispatch, opencode, inbox, crashes, evicted, forsaken>>

\* OpenCode admits a message id once, into a parent that exists.
Admit(r) ==
  admitted' = IF \/ turn[route[r.id].parent] = "gone"
                 \/ \E n \in 1 .. Len(admitted[r.id]) : admitted[r.id][n].message = r.message
              THEN admitted
              ELSE [admitted EXCEPT ![r.id] = Append(@, r)]

RequestOf(s) ==
  LET e == Oldest(tick[s].todo) IN
  [id |-> e, message |-> message[e], run |-> tick[s].run, deleted |-> tick[s].deleted]

RequestArrives(s) ==
  /\ TickIn(s, "request")
  /\ Admit(RequestOf(s))
  /\ tick' = [tick EXCEPT ![s].phase = "answer"]
  /\ UNCHANGED <<server, entries, message, timers, settleChecks, storage, dispatch,
                 opencode, network, history>>

\* Success, 409 (an earlier attempt landed) and 404 (no parent) are the same.
AnswerArrives(s) ==
  /\ TickIn(s, "answer")
  /\ entries' = entries \ {Oldest(tick[s].todo)}
  /\ tick' = [tick EXCEPT ![s].phase = "removing"]
  /\ UNCHANGED message
  /\ Persist(writes, [tick |-> s])
  /\ UNCHANGED <<server, timers, settleChecks, disk, dispatch, opencode, inbox, history>>

\* The request times out or its answer is lost; it may still arrive later.
RequestFails(s) ==
  /\ Happens("requestFails")
  /\ TickIn(s, "request") \/ TickIn(s, "answer")
  /\ network' = IF TickIn(s, "request") /\ Happens("late") THEN network \cup {RequestOf(s)}
                ELSE network
  /\ UNCHANGED entries
  /\ RetryLater(s)
  /\ UNCHANGED <<server, message, settleChecks, storage, dispatch, opencode, admitted, history>>

LateArrives ==
  \E r \in network :
    /\ Admit(r)
    /\ network' = network \ {r}
    /\ UNCHANGED <<runtime, storage, dispatch, opencode, history>>

-----------------------------------------------------------------------------
(* The write chain: a failed write is logged and forgotten. *)

Resume(waiter) ==
  LET chain == Tail(writes) IN
  \/ /\ waiter = NoWaiter
     /\ writes' = chain
     /\ UNCHANGED <<timers, settleChecks, tick, message, minted, stage>>
  \/ \E e \in Ids :
       /\ waiter = [register |-> e]
       /\ stage' = [stage EXCEPT ![e] = "registered"]
       /\ Arm(route[e].session)
       /\ writes' = chain
       /\ UNCHANGED <<settleChecks, tick, message, minted>>
  \/ \E s \in Sessions :
       /\ waiter = [tick |-> s]
       /\ UNCHANGED stage
       /\ \/ TickIn(s, "minting") /\ NextEntry(s, tick[s], chain)
          \/ TickIn(s, "removing")
             /\ NextEntry(s, [tick[s] EXCEPT !.todo = @ \ {Oldest(@)}], chain)

WriteEnds ==
  /\ writes # <<>>
  /\ disk' = Head(writes).file \/ (Happens("writeFails") /\ UNCHANGED disk)
  /\ UNCHANGED entries
  /\ Resume(Head(writes).waiter)
  /\ UNCHANGED <<server, route, afterIdle, opencode, inbox, crashes, evicted, forsaken>>

-----------------------------------------------------------------------------
(* Hub events *)

ProcessPayload(type, s) ==
  \/ /\ type = "deleted"
     /\ entries' = {e \in entries : route[e].parent # s}
     /\ UNCHANGED <<message, settleChecks>>
     /\ IF entries' # entries THEN Persist(writes, NoWaiter) ELSE UNCHANGED writes
     /\ Arm(s)
  \/ /\ type = "idle"
     /\ UNCHANGED <<entries, message, writes>>
     /\ settleChecks' = IF PendingFor(s, entries) = {} THEN settleChecks
                        ELSE [settleChecks EXCEPT ![s] = 0]
     /\ Arm(s)
  \/ /\ type = "busy"
     /\ UNCHANGED <<entries, message, writes, settleChecks>>
     /\ timers' = IF PendingFor(s, entries) = {} THEN timers ELSE timers \ {s}

DeliverEvent ==
  /\ events # <<>>
  /\ events' = Tail(events)
  /\ ProcessPayload(Head(events).type, Head(events).session)
  /\ UNCHANGED <<server, tick, disk, dispatch, turn, runs, records, unstarted, turnOf, inbox, history>>

Watched == {route[e].session : e \in entries}

\* The hub reconnects: what it had not delivered is lost, reconcileAll arms.
Reconnect ==
  /\ Happens("reconnect")
  /\ events # <<>>
  /\ events' = <<>>
  /\ timers' = timers \cup Watched
  /\ UNCHANGED <<server, entries, message, settleChecks, tick, storage, dispatch,
                 turn, runs, records, unstarted, turnOf, inbox, history>>

-----------------------------------------------------------------------------
(* Crash, or exit with writes pending; start *)

\* Only the file, and requests already sent, survive.
Crash ==
  /\ server # "down" /\ crashes < MaxCrashes
  /\ crashes' = crashes + 1
  /\ server' = "down"
  /\ entries' = {} /\ message' = [e \in Ids |-> NoMessage]
  /\ timers' = {} /\ settleChecks' = [s \in Sessions |-> 0]
  /\ tick' = [s \in Sessions |-> Asleep]
  /\ writes' = <<>>
  /\ stage' = [e \in Ids |-> IF stage[e] \in {"baseline", "prompted", "registering"}
                             THEN "failed" ELSE stage[e]]
  /\ events' = <<>>
  /\ network' = network \cup
       {RequestOf(s) : s \in {c \in Sessions : TickIn(c, "request") /\ Happens("late")}}
  /\ UNCHANGED <<disk, route, afterIdle, turn, runs, records, unstarted, turnOf,
                 admitted, minted, evicted, forsaken>>

Start ==
  /\ server = "down"
  /\ server' = "loading"
  /\ UNCHANGED <<entries, message, timers, settleChecks, tick, storage, dispatch,
                 opencode, inbox, history>>

\* load, then reconcileAll.
Load ==
  /\ server = "loading"
  /\ server' = "up"
  /\ entries' = disk.entries /\ message' = disk.message
  /\ timers' = {route[e].session : e \in entries'}
  /\ UNCHANGED <<settleChecks, tick, storage, dispatch, opencode, inbox, history>>

-----------------------------------------------------------------------------
(* OpenCode (external) *)

Outside == UNCHANGED <<runtime, storage, dispatch, inbox, history>>

\* A run starts for the prompts that wait, for the user, or on the result a
\* subagent hands back.
RunStarts(s) ==
  LET waiting == {e \in unstarted : route[e].session = s} IN
  /\ runs[s] < MaxRuns
  /\ \/ turn[s] = "idle" /\ (waiting # {} \/ Happens("userPrompt"))
     \/ turn[s] = "subagent"
  /\ turn' = [turn EXCEPT ![s] = "running"]
  /\ unstarted' = unstarted \ waiting
  /\ turnOf' = [e \in Ids |-> IF e \in waiting THEN runs[s] + 1 ELSE turnOf[e]]
  /\ Emit("busy", s)
  /\ UNCHANGED <<runs, records>> /\ Outside

\* A run ends: OpenCode appends its idle record, which a read may trail.
RunEnds(s) ==
  /\ turn[s] = "running" /\ runs[s] < MaxRuns
  /\ runs' = [runs EXCEPT ![s] = @ + 1]
  /\ records' = IF Happens("trails") THEN records ELSE [records EXCEPT ![s] = runs'[s]]
  /\ \/ turn' = [turn EXCEPT ![s] = "idle"]
     \/ /\ Happens("subagent") /\ runs'[s] < MaxRuns
        /\ turn' = [turn EXCEPT ![s] = "subagent"]
  /\ Emit("idle", s)
  /\ UNCHANGED <<unstarted, turnOf>> /\ Outside

RecordLands(s) ==
  /\ records[s] # runs[s]
  /\ records' = [records EXCEPT ![s] = runs[s]]
  /\ UNCHANGED <<turn, runs, unstarted, turnOf, events>> /\ Outside

SessionDeleted(s) ==
  /\ Happens("delete")
  /\ turn[s] # "gone"
  /\ turn' = [turn EXCEPT ![s] = "gone"]
  /\ Emit("deleted", s)
  /\ UNCHANGED <<runs, records, unstarted, turnOf>> /\ Outside

-----------------------------------------------------------------------------
Control == \E e \in Ids : DispatchBegins(e) \/ PromptLands(e) \/ Register(e)

TickSteps(s) ==
  \/ ReadActivity(s) \/ HearsRunning(s) \/ ReadFails(s)
  \/ ReadRecords(s) \/ LoopBegins(s)
  \/ RequestArrives(s) \/ AnswerArrives(s) \/ RequestFails(s)

Loop == \E s \in Sessions : TickBegins(s) \/ TickSteps(s)
Hub == DeliverEvent \/ Reconnect
Process == Crash \/ Start \/ Load

OpenCode == \E s \in Sessions :
  RunStarts(s) \/ RunEnds(s) \/ RecordLands(s) \/ SessionDeleted(s)

Next == Control \/ Loop \/ WriteEnds \/ LateArrives \/ Hub \/ Process \/ OpenCode

Spec == Init /\ [][Next]_vars

-----------------------------------------------------------------------------
(* Safety *)

\* The answer of one dispatch is admitted once: message ids are persisted
\* before the first attempt, so a crash, a retry or a late request reuses them.
DeliveredOnce == \A e \in Ids : Len(admitted[e]) <= 1

\* Nobody is left to be told of a result that was admitted, whose parent is
\* gone, or that gave way to MAX_ENTRIES younger ones.
Settled(e) ==
  admitted[e] # <<>> \/ turn[route[e].parent] = "gone" \/ e \in evicted

\* Once the agent was told that its result is pending, the result survives a
\* crash at any moment: it is in the file, or settled.
PromiseOnDisk == \A e \in Ids : stage[e] = "registered" => e \in disk.entries \/ Settled(e)

\* A result whose turn is over always has something that will look for it: a
\* timer, a tick at work, an event on its way, or its own registration; unless its
\* record came after the last recheck (the code gives it up then).
NoStrandedResult ==
  server = "up" =>
    \A e \in entries :
      LET s == route[e].session IN
      \/ s \in timers \/ tick[s] # Asleep \/ e \in forsaken
      \/ turn[s] \in {"running", "subagent"}
      \/ turn[s] = "idle" /\ records[s] = afterIdle[e]
      \/ \E n \in 1 .. Len(events) : events[n].session = s /\ events[n].type # "busy"
      \/ \E n \in 1 .. Len(writes) :
           \E f \in Ids : route[f].session = s /\ writes[n].waiter = [register |-> f]

\* The answer that is delivered is that of a run that had the dispatched
\* prompt, never of one that ended before the prompt was worked on.
AnswersTheDispatch ==
  \A e \in Ids : \A n \in 1 .. Len(admitted[e]) :
    LET r == admitted[e][n] IN
    r.deleted \/ (turnOf[e] # NotStarted /\ r.run >= turnOf[e])

-----------------------------------------------------------------------------
(* Liveness.  Requests are answered, writes end, the hub delivers, runs end  *)
(* and a crashed server is started again; what may fail does not fail every  *)
(* time it is retried.                                                       *)

LiveSpec ==
  /\ Spec
  /\ WF_vars(WriteEnds) /\ WF_vars(DeliverEvent)
  /\ WF_vars(Start) /\ WF_vars(Load)
  /\ \A e \in Ids : WF_vars(PromptLands(e)) /\ WF_vars(Register(e))
  /\ \A s \in Sessions :
       /\ WF_vars(TickBegins(s)) /\ WF_vars(TickSteps(s))
       /\ SF_vars(ReadActivity(s)) /\ SF_vars(ReadRecords(s))
       /\ SF_vars(RequestArrives(s)) /\ SF_vars(AnswerArrives(s))
       /\ WF_vars(RunStarts(s)) /\ WF_vars(RunEnds(s)) /\ WF_vars(RecordLands(s))

Promised == INSTANCE ResultPromise WITH
  Dispatches <- Ids,
  promised   <- {e \in Ids : stage[e] = "registered"},
  answers    <- [e \in Ids |-> Len(admitted[e])],
  excused    <- evicted \cup forsaken \cup {e \in Ids : turn[route[e].parent] = "gone"}

\* The runtime keeps the promise that ResultPromise states: a result announced
\* as pending is answered once, whatever crashes and fails meanwhile, unless its
\* record comes after the last recheck.
PromiseKept == Promised!Spec

=============================================================================
