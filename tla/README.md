# Verification of the OpenChamber server's replicated and durable state

TLA+ models of the parts of this repository that keep replicated or durable
state under concurrency: the server-owned message queue, its projection in the
clients, the delivery of results of dispatched sessions, the event stream from
OpenCode to the browsers, and the permission requests the server answers for its
user. TLC checks them on small instances; TLAPS proves every safety property the
passing runs check, for every instance. Paths below are relative to `src/`; `web/` stands for `packages/web/server/lib/` and
`ui/` for `packages/ui/src/`.

## 1. The system

The rows in bold are modelled. The repository is a web, desktop and mobile front end for OpenCode, which runs
coding sessions. Its core logic is the Node server in `packages/web/server`.
Each of its *runtimes* is one JavaScript object with maps in memory, timers, a
JSON file it writes behind, requests it awaits from OpenCode, and a subscription
to OpenCode's events, fanned out by one hub (`web/event-stream/global-hub.js`).
There are no threads. What interleaves is the continuations after each `await`,
timers, hub events and HTTP handlers of any number of clients; between two
awaits a handler is atomic.

| component | state it keeps | operations | hard behaviour | what makes it correct |
|---|---|---|---|---|
| **message queue** `web/message-queue/runtime.js` | queues per session, revision, `sending`, timers, failures, abort windows, holds; a file | enqueue, edit, reorder, take, clear, hold, cancel; tick; hub events; stop | ticks of one session overlap in their awaits; edits, aborts, deletion and evictions arrive in between; OpenCode's answers are stale or lost | one send per session; only what is queued is sent, once, in order, into an idle session; no queue is stranded; the scheduler hears once, and the truth, of each task |
| **queue projection** `ui/stores/messageQueueStore.ts`, `ui/sync/message-queue-sync.ts` | shown queues, in-flight ids, applied revisions | optimistic edits, broadcasts, responses, snapshots, resync | three channels that overtake each other; reconnects; a server that lost writes | ends up showing what is queued; never shows again what it took away; hides nothing |
| **dispatch results** `web/dispatch-results/runtime.js`, with `web/openchamber-sessions/routes.js` | pending entries with minted message ids, timers, settle rechecks, a write chain; a file | register, tick, idle/busy/deleted events, load | crash at any step, requests that time out and arrive later, records that trail their event, eviction | an announced result is delivered once, with the answer to that dispatch |
| **session activity** `web/opencode/session-activity.js` | none | active / descendants probe | several reads that are not one moment | used by both runtimes above |
| **permission auto-accept** `web/permission-auto-accept/runtime.js`, `ui/stores/permissionStore.ts`, `ui/sync/sync-context.tsx` | mode per session, lineage cache, a write chain, requests in work, reconciliations; in the client modes, shown and held requests | set mode, default mode, permission asked, retry, reconcile | the policy changes while a lineage is looked up; a rejected write poisons the chain; client and server know different modes | only what the policy allows is answered; what is not answered is shown; a mode that was set lasts |
| session goal `web/session-goal/runtime.js` | goal per session with status, budget, last message | set, pause, tick, audit, continue | quiet-window ticks against aborts and prompts of the user | one continuation per finished turn; an abort pauses |
| scheduled tasks `web/scheduled-tasks/` | tasks, occurrence claims, runs in progress | tick, run, watchdog, retry | two server instances over one file; a watchdog that gives up on a run that goes on | one run per occurrence |
| **event stream** `web/event-stream/`, with the cursor of `ui/sync/` | replay buffer, cursors, pending fragments, sockets | push, flush, commit, replay, accept, rebind, resume | clients that reconnect while the upstream is down, is rebound or restarts; coalesced fragments | a client is sent no event twice, and misses none without reading OpenCode's state again |
| relay `web/relay/` | streams, host lock | schedule, open, close | fairness between streams, two hosts | one host; no stream starves |
| session work, assist, provider read cache | turn generations, cached reads | refresh, clear | late answers about an earlier generation | no late answer overwrites a newer state |
| UI message loader and event reducer `ui/sync/` | message history of a session | load pages, apply events | pages against live events | no message is lost or doubled |

They interact by calls (scheduled tasks enqueue into the message queue and hear
of their items by `onScheduledResult`; `openchamber-control` registers results),
by the hub (all subscribe, in one order), by OpenCode (a prompt one of them sends
makes a session busy for the others) and through files (each its own).
`PROJECT.json` lists the remaining parts, each with the reason it is left out:
mostly I/O, presentation, process supervision or request handlers with no shared
state.

## 2. The modules

| module | models | role |
|---|---|---|
| `QueueServer` | - | abstract: what the server promises of a queue |
| `MessageQueue` | `web/message-queue/runtime.js` | detailed; implements `QueueServer` |
| `MessageQueueProofs`, `QueueTurnsProofs` | - | theorems about `MessageQueue`: claims, deliveries, results and order; and, extending it, flights, stranding and steering |
| `QueueProjection` | `ui/stores/messageQueueStore.ts`, the server's commit and broadcast | a client on top of `QueueServer` steps |
| `QueueProjectionProofs` | - | theorems about `QueueProjection` |
| `ResultPromise` | - | abstract: what an agent is promised |
| `DispatchResults` | `web/dispatch-results/runtime.js`, baseline and registration | detailed; implements `ResultPromise` |
| `DispatchResultsProofs`, `DispatchPromiseProofs` | - | theorems about `DispatchResults`: deliveries and types; and, extending it, the promise, what looks for a result, and which answer it gets |
| `EventHub` | `web/event-stream/`, the cursor and repair of `ui/sync/` | reader, coalescer, replay, WebSocket bridge and clients together |
| `EventHubProofs` | - | theorems about `EventHub`: what coalescing keeps, what the replay holds, what a client is sent and what it misses |
| `PermissionAutoAccept` | `web/permission-auto-accept/runtime.js`, the client's part of it | server, OpenCode and one client together |
| `PermissionAutoAcceptProofs`, `PermissionRequestsProofs` | - | theorems about `PermissionAutoAccept`: its policy; and, extending it, its requests |
| `MC...` | - | values of constants and symmetry for TLC |

**Behaviours.** Each detailed module has a constant set `Behaviours` naming the
optional steps of users, faults and OpenCode ("delete", "responseLost", ...) that
happen in an instance. It only removes steps of the environment, never of the
code. It is how a run stays small, and how a run leaves out the circumstances
under which the code is known to break its property (section 6). The theorems
hold for every value of it, but for those whose assumption names one (section 4).
`MaxFaults` in the younger modules is one budget for everything that goes wrong, so
that a run can have every kind of fault without every combination.

### MessageQueue

| code | model |
|---|---|
| `queues` (Map of arrays) | `queues`: a set of ids per session, `position` for the order |
| `revision`, `sending`, `timers`, `failures`, `abortedSessions`, `holds`, `directories`, `stopped` | the variables of these names |
| continuations of `tick()` (623-716) | `ticks`: phase, session and item of every tick under way |
| `enqueue`, `removeItem`, `takeItem`, `takeAll`, `reorder`, `clear`, `setHold`, `cancelScheduledTask`, `stop` | `Enqueue`, `Remove`, `Take`, `TakeAll`, `Reorder`, `Clear`, `SetHold`, `CancelScheduledTask`, `Stop` |
| one `await` of `tick()` after the other | `TickBegins`, `ProbeActive`, `ProbeTail`, `TargetValid`/`TargetRefused`, `ProbeSubagents`, `Launch`, `BeforeSendPasses`/`Refuses`, `Prepare`, `PromptAdmitted`, `SendSucceeds`/`SendFails`/`ResponseLost` |
| `processPayload`, `reconcileAll` | `DeliverEvent`, `Reconnect` |
| the clock: windows, backoffs, holds | `AbortWindowEnds`, `BackoffEnds`, `HoldExpires`, `TimerIgnored` |
| OpenCode (external) | `turn`, `events` and the actions in `OpenCode` |

Every request is one action, and its answer is what holds at that moment: what the
runtime goes on with is stale as soon as another action intervenes. `PromptAdmitted`
(OpenCode takes the prompt) and the arrival of its response are separate. An item
carries nothing but its optional task: text, files, model and agent decide nothing
here. Ids are handed out in creation order and stand for `createdAt`.

### QueueProjection

One client, one runtime. The server is `commit`, `broadcast`, `persist` and `load`
of the queue runtime, with the claim and release steps taken from `QueueServer`.
Broadcasts are an ordered `stream`; calls and responses are sets, so they overtake
everything. `shown`, `shownSending`, `applied` and `snapshotRevision` are the
store's `queuedMessages`, `sendingIds`, `appliedRevisions` and snapshot guard;
`Show`, `ApplyServerSession`, `ApplyUnnamedSession` and `ApplyOwnerSnapshot` are
its functions. `Draft` is the optimistic message of an unacknowledged add.
`AddToQueue`, `RemoveFromQueue` and `ClearQueue` show their effect before the call
is handled; `ReadEverything` is `resync`, which shares a read that is under way and
has it repeated (`resyncRequested`). With the stream up any single call may fail, in the
request or in the response (`RequestLost`, `ReplyLost`): a mutation is made good by a
read of its session, an add gives up its draft, and a read of one session or of
everything that fails keeps what is shown and is not repeated (`Fails`). `StreamGap`
loses the event stream while the client's requests go on; `Disconnect` and `Restart`
lose both. Two ghosts name what the properties except (section 6): `unguarded`, items
whose departure no revision guards, and `unread`, sessions of which a read has failed,
until they are broadcast or asked for again.

### DispatchResults

`entries`, `message` (the minted message ids), `timers`, `settleChecks` and `tick`
are the runtime's maps; `writes` is its chain of writes, each with the function
that awaits it; `disk` the file. `DispatchBegins`, `PromptLands` and `Register` are
the three stages of a dispatch with `returnResult`; `ReadActivity` to `LoopEnds`
and the request steps are `tick()` and `deliver()` await by await; `Crash`, `Start`
and `Load` may happen between any two steps. The idle records of a session are
abstracted to the number of runs that ended, which is what the code compares.
A request that failed may be admitted later ("late"), once per message id. `forsaken`
is a ghost: the results for which a tick with no recheck left found an idle session
and no record yet (`GivenUp`); it looks no more, and neither may anything else.

### EventHub

| code | model |
|---|---|
| `upstream-reader.js`, `global-hub.js`: the connection, `everConnected` | `reader`, `everConnected`; `Connect`, `UpstreamBreaks`, `InitialError`, `Rebind` |
| `delta-coalescer.js`: `push`, its timer, `flush` | `pending`; `PushFragment`, `PushBarrier`, `WindowEnds` |
| `commitEvent`, `replayAfter` of the hub | `replay`, `latest`; `Commit`, `Retained`, `Greeting` |
| `global-ws-bridge.js`: sockets, `clientLastEventIds`, `ready` frames | `socket`, `asked`, `wire`; `Accept`, `Announced`, `SocketCloses` |
| `ui/sync/event-pipeline.ts`: cursor | `cursor`; `ReceiveReady`, `ReceiveEvent` |
| `sync-context.tsx`: bootstrap, boot window, `resyncingDirectories`, the re-read after a ready | `fresh`, `booting`, `bootRead`, `resync`; `ReceiveReady`, `BootReads`, `BootEnds`, `StaleStatus`, `ReadAnswered`, `ReadFails`, `ReadEnds` |

Events are numbered as OpenCode produces them, and the number is their id, be it
OpenCode's or one the hub gives; a merged event is the sequence of its fragments
and has the id of the last. `Produce` is the whole path of one event through
coalescer, buffer and bridge, which has no await; a flush commits its texts in one
step, so `Retained` says what the buffer has after the last of them. `log`, `committed`, `lost`, `got` and `seen` are
history. A ready *asks* for a re-read (`triggerDirectoryResync`); OpenCode answers it
later, and it ends when its last request has. One that is asked for while another is
under way is dropped (2712), one in the boot window is skipped (3058), and one that fails,
or leaves out what is not of an active session (1521-1523), is not repeated
(2721-2723). `excused` names the events a client misses that way, or that no ready tells
it of: what it has not read by then, and what neither the stream nor a replay will bring
(`Missed`; section 6). `PENDING_LIMIT` stands for both limits of the coalescer, on size and on
keys; a frame over the byte limit of the replay is the kind `Huge`.

### PermissionAutoAccept

| code | model |
|---|---|
| `policy.sessions` and the settings file | `mode` |
| `writePromise`, fulfilled or rejected | `writes`, `poisoned`; `WriteEnds`, `WriteFails` |
| `applyDefaultMode` | `defaulting`; `Create`, `DefaultRead` |
| `inFlight`, `processPermission`, `resolveLineageMode`, `replyOnce` | `work`: phase, place in the lineage and attempt; `Resolve`, `LookUp`, `Walks`, `Accepted`, `Held`, `Replied`, `AttemptFails`, `ResponseLost`, `Retry` |
| `reconcilePending` of a directory, of all | `listing`, `awaited`; `Reconcile`, `Listed`, `ListFails` |
| session cache | `known` |
| `permissionStore.ts`, `permissionsAwaitingAutoAnswer`, the screen | `cmode`, `held`, `shown`; `ReceiveAsked`, `ReceiveReplied`, `ReceiveLeft` |
| `sync-context.tsx`: boot window, `resyncingDirectories`, `resyncBlockingRequestsForDirectory` | `booting`, `resync`; `ReceiveReady`, `StaleStatus`, `ReadAnswered`, `ReadFails`, `ReadApplied` |

`Resolve` waits for the writes that were queued when the request arrived, as the
code's await of `writePromise` does; the walk then stops at each session whose
record is not cached. `Post` is the broadcast to a connected client, the hub's
events included. `chosen`, `authorised`, `told` and `missed` are history: the mode
the user has set, once written; requests that some state of the policy since they
were asked let the server answer; requests left for the user; open requests that the
last reconciliation did not cover.

A ready, to a client that connects and to every client when the upstream is back, asks
for a re-read as in `EventHub`. OpenCode answers it with a list, of all sessions or, with
"readFails", of some; `ReadApplied` puts that list on the screen later, over what the
stream has shown meanwhile. `overlooked` is a ghost: the requests that the client will
hear nothing more of when a ready is ignored or a re-read leaves out their session
(`Unheard`), and those that an older list takes off the screen (section 6).

## 3. What the runs check

Ten runs must pass, each property with a mutant of the code that TLC finds (the
operators commented "Mutant" in the modules); two show a disagreement between the
code and its documentation.

| run | question | properties |
|---|---|---|
| `queue_sends` | two overlapping ticks over failing probes and sends, lost responses, slow responses, takes, holds, aborts, prompts of the user: who is sent what, in which order | `TypeOK`, `OneSendPerSession`, `NoDuplicateDelivery`, `DeliveryInv`, `NoOvertaking` |
| `queue_turns` | two overlapping ticks against turns with steps, aborts and streams that left the active list, with a queue over its limit: is anything steered into a running turn, is a queue left with nothing that looks at it | `NoSteering`, `NoStrandedQueue`, `QueueServed` |
| `queue_edits` | two sessions over `MAX_SESSIONS`, edited, reordered, deleted and cancelled under a working tick, sends that fail and targets that are refused; what the scheduler is told of each way out | `OnlyQueuedItemsPrompted`, `InFlightStaysQueued`, `RevisionCountsEdits`, `OneEntryPerTask`, `ScheduledResultOnce`, `ScheduledResultTrue`, `LastBroadcastNamesDirectory` |
| `queue_live` | does every message leave its queue with nobody watching | `EventuallyLeaves` |
| `projection_converges` | messages that overtake each other, takes, clears, failed sends, eviction, deletion, and one of: a request or a response that fails, a gap of the stream during a read, an outage, a clean restart | `TypeOK`, `ShownConverges`, `NoResurrection` |
| `dispatch_faults` | one dispatch under every fault but trailing records | `TypeOK`, `AnswersTheDispatch`, `NoStrandedResult` |
| `dispatch_crashes` | two dispatches over `MAX_ENTRIES`, late and lost requests, deletion, a crash at any step | `DeliveredOnce`, `PromiseOnDisk` |
| `dispatch_live` | implements `ResultPromise`, with trailing records, turns that start late, a hub that reconnects, late requests and a crash; something looks for a result until it is given up | `NoStrandedResult`, `PromiseKept` |
| `hub_stream` | a reader that breaks, fails to dial, is rebound or restarted, sockets that close, a client that resumes while booting or later, re-reads that are dropped or fail | `TypeOK`, `OrderKept`, `IdsGrow`, `ReplayContiguous`, `ExactlyOnce`, `NoSilentGap`, `EventuallySeen` |
| `permissions_policy` | a subagent asks while the user changes a mode or the default arrives, and lookups, replies, lists, writes, streams, the server and the client's re-reads fail | `TypeOK`, `NoHiddenRequest`, `RepliesAuthorised`, `ChosenModeKept`, `AutoLeavesNothing`, `EventuallyAttended` |
| `projection_stale_restart` (violation) | a crash that loses a write puts the server behind its clients | `ShownConverges` |
| `permissions_hidden` (violation) | a session that asks while its mode is set to ask: the client hides what the server leaves in silence | `NoHiddenRequest` |

The properties are the ones a unit test hardly reaches. `NoStrandedQueue` and
`NoStrandedResult` say in a state what a lost wake-up would break later: whatever
waits has a timer, a tick at work, or an event on its way that will arm one. `DeliveryInv`
is the inductive form of `NoDuplicateDelivery` and is checked before it is proved.
`ScheduledResultOnce` and `ScheduledResultTrue` compare what the scheduler was told
with what OpenCode saw over the whole life of an item. `QueueServed` and
`PromiseKept` are refinements. `OrderKept` says what coalescing may reorder and that
it loses nothing; `NoSilentGap` compares what OpenCode said with what a client was
sent or read, over any sequence of breaks; `RepliesAuthorised` compares an answer
with every state the policy was in since the request was asked;
`NoHiddenRequest` relates the client's view to the server's.

### Bounds, and why they are enough

- Two ticks of one session: the code can have more, but the claim is the only
  point where they meet, and a third adds no pair. The proofs are for any number.
- Three items: one in flight, one next, one that overtakes or is reordered.
  `queue_turns` has `MaxItems = 2`, so that an enqueue drops the oldest.
- Two sessions and `MaxSessions = 1` in `queue_edits`: every enqueue into the other
  one evicts. One tick is enough there, for overlap is the subject of the others.
- `MaxEvents` of the queue and of dispatches: one or two undelivered hub events.
  The hub is ordered; what matters is that an event is late relative to the steps
  between, not how many are.
- `MaxAdmits = 1`: one lost response per item. `MaxRevision` stops reorders and
  clears, the only edits that could go on for ever.
- One or two dispatches, two runs per session (the one that has the prompt, one
  before or after it), one crash, `SETTLE_RECHECKS = 1` (the code has more; one
  that is used up is the interesting case), `MAX_ENTRIES = 1` where eviction is the
  subject. The proofs are for any of these.
- Two items, two broadcasts, two calls under way and one fault for a client:
  older and newer of each channel. `MaxRevision = 4` gives three mutations.
- Three events of two streams, barriers or oversized ones, `REPLAY_LIMIT = 2`
  and `PENDING_LIMIT = 3`: one merge, one reordering, an eviction from the
  replay, an early flush. Two faults: one that makes a gap and one during the
  recovery from it, a failing re-read included. One client: clients share only what the
  hub commits.
- A session and its subagent, which asks once, two attempts, and two of: one change of a
  mode, faults (`MaxSteps` bounds both together, for the size of the run; the proofs are for any
  number). A list takes a request off the screen only if it has another of its session,
  so that two requests are needed: there only the proof speaks, and section 6. The default mode is `auto`, the other source of updates; with one
  change by the user it still overlaps a write, a lookup and a retry. A second
  change is where section 6's torn walk begins; sessions that the hub does not see
  being created ("createdUnseen") are left out, for with them the default arrives as
  a further change.

Symmetry is used for interchangeable ticks or sessions, in runs without liveness
only. `CHECK_DEADLOCK FALSE` is set everywhere: with nothing queued or asked, nobody
editing and the bounds used up, the system rests.

### Fairness

`LiveSpec` of `MessageQueue` and `DispatchResults` assumes what the platform does:
timers fire, awaited requests settle (they carry timeouts), the chain of writes
ends, the hub delivers, a crashed server is started again (weak fairness), and
OpenCode's turns end. Strong fairness is assumed of requests that *may* fail or be
refused: they do not fail each time they are retried. Without it a queue may be
retried for ever, which is what the code does on purpose (backoff without limit).
No fairness is assumed of users. `queue_live` has one tick at a time: overlapping
ticks are where section 6's strandings come from. `RecordLands` is fair because OpenCode does
write its records; how late is open, and a record that comes after the last recheck of
its turn is the exception `forsaken`.

`LiveSpec` of `EventHub` assumes that the timer of the coalescer fires, that the
reader and the clients, which retry for ever, dial again, and that what was sent
arrives and that what was asked of OpenCode is answered, well or badly;
`EventuallySeen` says again and again, not for ever, for a re-read may always begin
anew. `LiveSpec` of `PermissionAutoAccept` assumes that requests and writes settle, well or
badly, the re-reads of the client included, and that the two streams are connected again. Weak fairness is enough, for
faults are bounded and attempts are in the code. Again nothing is assumed of users: a
request is *attended* once it is on the screen.

## 4. What is proved

For every value of the constants:

| module | theorem | statement |
|---|---|---|
| `MessageQueueProofs` | `TypeCorrect` | `Spec => []TypeOK` |
| | `OneSendPerSessionCorrect` | `Spec => []OneSendPerSession` |
| | `DeliveryInvCorrect`, `NoDuplicateDeliveryCorrect` | `Spec => []DeliveryInv`, and so `[]NoDuplicateDelivery` |
| | `QueueServedCorrect` | `Spec => QueueServed`: every step is a step of `QueueServer` or a stutter |
| | `RevisionCountsEditsCorrect` | `Spec => RevisionCountsEdits` |
| | `ScheduledResultOnceCorrect`, `OneEntryPerTaskCorrect` | `Spec => []ScheduledResultOnce`, `Spec => []OneEntryPerTask` |
| | `NoOvertakingCorrect` | `~Happens("reorder")` implies `Spec => NoOvertaking` |
| `QueueTurnsProofs` | `InFlightStaysQueuedCorrect` | `NoRefusalMeanwhile`, and one tick or no `"delete"`, imply `Spec /\ []RoomLeft => InFlightStaysQueued` |
| | `OnlyQueuedItemsPromptedCorrect` | `NoRefusalMeanwhile` implies `Spec /\ []RoomLeft => OnlyQueuedItemsPrompted` |
| | `ScheduledResultTrueCorrect` | `NoRefusalMeanwhile`, and one tick or no `"delete"`, imply `Spec /\ []RoomLeft => []ScheduledResultTrue` |
| | `LastBroadcastNamesDirectoryCorrect` | no queue restored implies `Spec => LastBroadcastNamesDirectory` |
| | `NoStrandedQueueCorrect` | `HeadsStay` implies `Spec => []NoStrandedQueue` |
| | `NoSteeringCorrect` | `QueueOnly` implies `Spec => NoSteering` |
| `QueueProjectionProofs` | `TypeCorrect` | `Spec => []TypeOK` |
| | `ProjectionSound` | `~Happens("crash")` implies `Spec => []Projection`, the inductive invariant |
| | `NoResurrectionCorrect`, `ShownConvergesCorrect` | `~Happens("crash")` implies `Spec => []NoResurrection`, `Spec => []ShownConverges` |
| `DispatchResultsProofs` | `TypedCorrect`, `TypeCorrect` | `Spec => [](Typed /\ Looks)`, what deliveries depend on; `Spec => []TypeOK`, with every bound |
| | `DeliveredOnceCorrect` | `~Happens("writeFails")` implies `Spec => []DeliveredOnce` |
| `DispatchPromiseProofs` | `PromiseOnDiskCorrect` | `~Happens("writeFails")` implies `Spec => []PromiseOnDisk` |
| | `PromiseSafetyCorrect` | `~Happens("writeFails")` implies `Spec => Promised!Init /\ [][Promised!Next]_(Promised!vars)` |
| | `NoStrandedResultCorrect` | `Spec => []NoStrandedResult` |
| | `AnswersApartCorrect` | `~Happens("trails")` and `~Happens("startsLater")` imply `Spec /\ [][RegistersApart]_vars => []AnswersTheDispatch` |
| | `AnswersOnceCorrect` | the same with `Spec /\ DispatchedOnce` |
| `PermissionAutoAcceptProofs` | `TypeCorrect`, `TypeInvCorrect` | `Spec => []TypeOK`, and the inductive form of it |
| | `ChosenModeKeptCorrect` | `Spec => []ChosenModeKept` |
| `PermissionRequestsProofs` | `AutoLeavesNothingCorrect` | `Spec => []AutoLeavesNothing` |
| | `RepliesAuthorisedCorrect` | `Spec /\ [][PassedNotSetToAsk]_vars => []RepliesAuthorised` |
| | `RootsAuthorised` | lineages of one session imply `Spec => []RepliesAuthorised` |
| | `NoHiddenRequestCorrect` | `Spec /\ [][NobodyTurnedOff]_vars => []NoHiddenRequest` |
| `EventHubProofs` | `TypeCorrect` | `Spec => []TypeOK` |
| | `HistoryCorrect` | `Spec => [](TypeOK /\ HistoryInv)`, the inductive invariant of coalescing |
| | `OrderKeptAlways`, `IdsGrowAlways` | `Spec => []OrderKept`, `Spec => []IdsGrow` |
| | `ReplayContiguousAlways` | `Spec => []ReplayContiguous` |
| | `ExactlyOnceAlways` | `Spec => []ExactlyOnce` |
| | `NoSilentGapAlways` | `Spec => []NoSilentGap` |

Assumptions on constants: `BoundsAssumption` (limits are positive, bounds are
naturals, `NoTask` is no task, sessions are finite), `StoredAssumption` (a queue file
restores queues of known ids), `ProjectionBounds`, `DispatchBounds`,
`PermissionBounds` (a lineage begins with its session, and an ancestor's is the rest
of it), `HubBounds` (limits and bounds are naturals, `PENDING_LIMIT` is not 0). TLC
evaluates them in every run.

The other hypotheses name the circumstance in which the code is known not to have the
property, and no more; each has its row in section 6 (or, for the first, is the user's
own choice). TLC finds a violation when one of them is dropped.

| hypothesis | excludes |
|---|---|
| `~Happens("reorder")` | a user who chooses another order than `NoOvertaking` speaks of |
| `RoomLeft` (of a behaviour) | a queue that is full while items are created, and drops the one in flight |
| `NoRefusalMeanwhile` | OpenCode refusing the target of a second tick that works on the head the first has in flight |
| `~Happens("delete")`, one tick | the deletion of a session whose item is in flight |
| no queue restored | queues read from the file, which have no directory |
| `HeadsStay` | edits that take the head away, holds that expire, answers slower than the end of their turn |
| `QueueOnly` | turns that the user, a subagent or a lost response starts, and reorders, which put a head behind one a tick has in hand |
| `~Happens("crash")` in the projection | a crash that loses writes of the queue file (restarts that lose none are in) |
| `~Happens("writeFails")` | a write of the results file that fails and is forgotten |
| `~Happens("trails")`, `~Happens("startsLater")` | a record that is read later than its idle event, a prompt whose run does not start at once: the baseline may then be one run too old, or the newest record that of an earlier run |
| `RegistersApart` (of a behaviour) | a registration between the reads of a tick of its session and its loop |
| `DispatchedOnce` | two dispatches to one session |
| `PassedNotSetToAsk` (of a behaviour) | a session set to `ask` after a walk has passed it |
| `NobodyTurnedOff` (of a behaviour) | a session whose answering mode is taken away |

**The queue.** *Types*: `TypeOK` is inductive by itself. *Claims*:
`OneSendPerSession` is inductive relative to `TypeOK`: a tick gets past its claim only
by `Launch`, whose guard finds `sending` empty, and every way out of the send clears
it; the lemmas `SendKept...` treat one kind of step each. It has to say that a claim
belongs to a tick, for otherwise a release by another tick could not be excluded.
*Deliveries*: `NoDuplicateDelivery` alone is not inductive: a tick about to prompt an
item needs to know that the item was not admitted before. `DeliveryInv` adds
`IdsUsedOnce` (an id waits in one session, and is in flight in one tick) and
`NotYetAdmitted` (what waits or is about to be prompted was not admitted, or its
response was lost, or it is just being answered), and is inductive given the claims.
The refinement maps each action to `Mutate`, `Claim`, `Release` or `Settle`; that the
end of a send releases the right claim is where it needs `OneSendPerSession`.
*Results*: the lemma `QueueSteps` shows that a step either only takes items out of
queues and reports each of them that has a task, or enqueues one. From it follow the
revisions, `ScheduledResultOnce` (strengthened with: ids to come have no task and no
report, and no position is beyond what was created) and `OneEntryPerTask`.
*Order*: without reorders positions follow ids, and an item in a tick's hand is the
least of its queue as long as it is queued, for an enqueue only adds a greater one.
*Flights* (`FlightQueued`): an item waits in its queue until its prompt is out; a full
queue and a refused head are the only other ways out. `TrueInv` adds what the scheduler
was told: "sent" of admitted items, anything else of items no tick can prompt any
more. *Stranding* (`AttendedInv`): a queue that wants attention has a timer, a hub event
that arms it, or a tick that is still useful, that is, in flight or at the head. It needs
`BusyThenIdle`, for a busy event disarms a queue whose turn may be over: the
end of the turn follows in the stream. *Steering*: what a tick has read is old, so the
invariant cannot say that its session is idle; `UnsteeredInv` says that it is idle *or*
the tick is stale, and will find its item gone or claimed, which `OrderedInv` (no tick
works on an item behind one in flight) preserves.

**The projection.** The messages of a client overtake each other, so no invariant over
queues and screen alone is inductive: a message speaks of what the server *had*.
`Projection` therefore says that there *is* a history `H` of what was queued at each
revision (`Past`: ids are handed out once and do not come back), that every broadcast,
response and promised read tells what `H` has at its revision (`Truthful`), and that the
client shows a part of `H` at its guard, the greater of the revisions it applied, while
what it took away is in `H` at no later revision (`Seen`). Each step extends `H` by one
revision or leaves it. `NoResurrection` is the second half of `Seen`. For
`ShownConverges` the invariant also says what is still to come for a session that is not
`unread`: a revision the client has not seen is in a broadcast with a directory, in the
response to a read, or a read will be made (`Covered`), and what it hides has a call
under way or a message that will show it (`Revealing`). A call that fails takes one of
these away; either another read follows it, or it was a read and its sessions are
`unread` from then on (`FailsHides`). A response without a directory may be ignored, but
tells of a session with no queue (`NamedReplies`, `IgnoredUnnamed`). `Promised` says that
a trailing read has one before it, `SavedLast` why a restart loses nothing: the last write has
what is queued.

**Results of dispatches.** `DeliveredOnce` is about what a crash may forget. OpenCode
takes a request with a message id it knows for a repetition, so the invariant says
that a result is only ever sent under *one* id (`OneId`): once it has been used, every
place that still knows the result, the memory, a tick, the file, every file in the
chain of writes, knows it under that id. This is inductive only with what a write
means to a tick: `IdsWritten` says that a tick that waits for the write of an id has every
later file agree on it, and that everywhere else the files already agree.
`Waiting` says that a tick waits for one write, `Registered` that nothing unannounced is in a file,
`Stopped` that a server that is down holds nothing. `PromiseInv` does the same for
existence: what was announced is in every file from the one its registration waited
for on (`InLaterWrites`), or settled. The refinement then needs only that `Promises`
grow by one at the end of a write, `Answers` by one from zero when OpenCode admits a
request, and that excuses last. *Types*: that message ids stay within one per result and
crash is not a matter of types; `MintedOnce` counts them by crash, and needs that a
result in memory keeps the id it has. *Stranding* (`AttendedInv`) needs no hypothesis: a
pending result that is not `forsaken` has a timer, a registration whose answer arms one, an event that tells of
the end of its turn, a turn that lasts (`Heard`: its end will be told, even behind a
busy event that disarms), a session with nothing new, or a tick that `WillLook`: which is
at the records, or in a loop that has the entry to do or rechecks to spend. A read
that finds nothing with no recheck left is a result of an idle session whose record
trails, which is `forsaken` by that step, or one whose run is still to end. *Answers* (`AnswerInv`): a result is registered after its prompt, so a run
works on it (`Started`, `WorkedOn`); what a tick has read is right for what was pending
when it read (`Reads`), hence for what it sends.

**The permission policy.** `TypeOK` is not inductive by itself. A walk may be anywhere
in its lineage, so `Placed` has to say that it is at a place of it; an ancestor whose
record is looked up has to exist (`Ancestry`), and what is worked on, or spoken of
in the stream, has to have been asked by a session that exists (`Asked`).
`ChosenModeKept` follows the chain of writes: an update reaches `mode` and `chosen` in
one step, a default changes neither once a mode is there, and a restart finds both
before or both after the write that was under way.

*Requests.* `AutoInv` says of every open request of an auto session who answers it: who
works on it, a reconciliation that lists it, or the one that follows; a walk that
does not look again waits for no default (`Seen` of that request). `AuthorisedInv` follows a walk
that reads one session after the other while modes change: what it has passed has no mode
by now, or what it will answer was allowed at some moment. For that the nearest mode of
a lineage is computed from its rest (`Nearest`, `Ahead`), which is why `PermissionBounds`
says that an ancestor's lineage is the rest. `HiddenInv` relates two policies: the one a
client believes, which is an older one of the server with the stream still to come
(`Believes`, `Behind`), and the server's; what a client holds back from now on is worked on, or its release is in the stream
(`HeldBack`), and what it held back when a gap came is safe as long as it is worked on
(`HeldBound`). Of an open request that a connected client does not show it says that a
re-read will have it, has it in its list, or has overlooked it (`ReadAgain`), or that the
client will hear of it or of another gap (`Expected`). A ready that is ignored is where
this needs the lemma `UnheardOrExpected`: what is not to be heard of is overlooked, by
that step.

**The event stream.** `TypeOK` is inductive by itself; none of the other properties of
the hub is, and each needs the one before. TLC checked the invariants below with the
constants of `hub_stream`, and one event more, before they were proved. *Order*: which events may still change places depends on what is pending, so
`HistoryInv` speaks of committed and pending texts together (`Frozen`). They are
`Ordered`: each text rises, ids grow from text to text, texts share no event, and where
an event is behind a younger one, the two are of different streams with nothing but
fragments between (`MayCross`). What may be merged later is `Apart`: pending texts
are each of a stream of its own, and only fragments came since the oldest of their
events. A step either appends a text or moves one, with one event more, to the end;
`Grown` says so with a map of the places of the new sequence to those of the old one, and
the lemmas about `Grown` do both cases at once. `OrderKept` and `IdsGrow` follow.
*Replay*: `ReplayInv` says that the buffer is the end of what was committed and `latest`
its last id, which is what both eviction and an oversized event keep.
*Delivery*: `ExactlyOnce` needs to know where a client is in the stream: its cursor is
the id of a committed text, what is on its way comes after the cursor in order (`Line`),
and what it got is `Behind` both, so a greeting with the cursor repeats
nothing, whatever the socket was asked with. *Gaps*: `CoverageInv` says of a client that has no read of OpenCode's state ahead of it
(`ReadAhead`) why each event it
misses is still to come: with a cursor, it lies after the cursor; on an open
socket it is pending, on its way, lost with a ready still to be announced or received, or
the ready on its way finds it without a cursor (`OnItsWay`). A ready then makes it
read, or excuses it from what it will not get (`CoveredReady`); a re-read that fails
excuses it from the rest (`CoveredPart`), and only then, for what is pending, on its way
or replayed stays owed. That the greeting covers
what the cursor left is where the buffer has to be contiguous (`GreetingCovers`), and
that an event frame takes the cursor past nothing it misses is where ids have to grow
(`CoveredEvent`).

Only model-checked: liveness (`EventuallyLeaves`, `EventuallySeen`,
`EventuallyAttended`, the liveness part of `PromiseKept`), for the prover does no
fairness.

## 5. What is abstracted or left out

- Delays: a timer fires some time after it was armed; settle delays, backoffs and
  windows end at any time after they begin.
- Contents of items and of `Prepare` (attachments, context messages admitted before
  the prompt): one step that succeeds or fails.
- In `MessageQueue`, a crash during a dispatch: the queue file is its initial state
  (`StoredQueues`); the write chain is in `QueueProjection` and, for results, in
  `DispatchResults`.
- In `QueueProjection`: local queues of servers without an owner and their upload,
  runtime switches, isolated spaces, `reorderQueue`, `forgetQueue`,
  several clients at once (other clients are steps of the server).
- In `DispatchResults`: a failed first load, corrupt files, forks and worktrees. The
  baseline is always read; when the code fails to read it
  (`openchamber-sessions/routes.js:304-310`), it compares clocks instead
  (`dispatch-results/runtime.js:155-156`).
- Recursive walks over descendants are one atomic read of "a descendant works".
- In `EventHub`: the event stream of one directory (one reader per socket, nothing
  shared), the SSE fallback, heartbeats and synthetic frames, hubs not owned by
  the server, why a socket is slow. A reader connects only with nothing
  pending: its retry delay (250 ms) is longer than the window of the coalescer
  (50 ms). How a re-read merges with the events that arrive meanwhile; its several
  requests are answered at one moment, the earliest. A bootstrap that fails is shown as
  failed and begins again; here it succeeds, at any time.
- In `PermissionAutoAccept`: one directory; the conversion of policies from before the
  modes; the limits of the caches; isolated spaces; the notifications that
  consult an outcome, which with mode `auto` take a request for answered even if the
  reply failed; VS Code. The client compares what a re-read finds missing with what it
  showed when it began, here when OpenCode answers: the difference is only when a
  request that was answered in between leaves the screen. The boot window ends at any
  time after the start, seen by the next ready. The hub's replay for a client with a
  cursor is `EventHub`'s: here a gap loses what was said, and a ready in the boot window
  may find the replay reset, or not. The safety net (external) allows or holds. A user sets modes from any client, this one
  hears of them by the broadcast. A walk that waits for no write begins before
  the next write ends: both are continuations of promises that are already settled.

## 6. Deviations met while modelling

Two are runs and listed as findings. The others are left out of the passing runs
by `Behaviours` or bounds, or excused by name in a property; adding what the second
column names to the run makes TLC show them.

| what the code does | run and change | property broken |
|---|---|---|
| Writes of the queue file are not awaited: after a crash clients reject the snapshots of a server whose revision is lower (`message-queue/DOCUMENTATION.md:107-108`) | `projection_stale_restart` | `ShownConverges` |
| A permission asked while the write of `ask` is pending waits for it and is left in silence (`permission-auto-accept/runtime.js:221`, `287`); the client, which still knows the old mode, hides it and is never told (`permission-auto-accept/DOCUMENTATION.md:37`) | `permissions_hidden` | `NoHiddenRequest` |
| A hold that expires arms no timer (`message-queue/runtime.js:847`, `615-621`); `message-queue/DOCUMENTATION.md:178-179` says it expires because its UI may be gone | `queue_turns` + "holdExpiry" | `NoStrandedQueue` |
| A tick that finds another head after its awaits returns unarmed (`runtime.js:676`) | `queue_turns` + "remove" or "reorder" | `NoStrandedQueue` |
| An idle event that precedes the response to its prompt is used up while the item is in flight (`runtime.js:626`) | `queue_turns` + "slow" | `NoStrandedQueue` |
| `enqueue` slices without regard to the item in flight (`runtime.js:753`; comment at 834-835) | `queue_edits` with `MaxItems = 1`, + "slow" | `InFlightStaysQueued`, `OnlyQueuedItemsPrompted` |
| Session and descendants are read by two requests; the parent may run again in between (`runtime.js:642`, `667`) | `queue_turns` + "subagent" | `NoSteering` |
| The retry of a lost response that overlaps another tick's probe steers into the turn its own prompt started | `queue_turns` + "responseLost" | `NoSteering` |
| A reorder puts another item at the head while a tick has the old one in hand; a second tick sends the new head, and the old one, at the head again, passes the comparison of ids of the first (`runtime.js:676`) | `queue_turns` + "reorder" | `NoSteering` |
| A prompt of the user starts a turn after the probes have found the session idle (`runtime.js:667-678`) | `queue_turns` + "userPrompt" | `NoSteering` |
| A tick whose target OpenCode refuses drops the head as failed without regard to another tick that has it in flight (`runtime.js:643-652`) | `queue_edits` with `Ticks = {t1, t2}` | `InFlightStaysQueued`, `ScheduledResultTrue` |
| The deletion of a session reports its items as cancelled, one that OpenCode has already admitted included (`runtime.js:865`) | `queue_edits` with the last disjunct of the property left out | `ScheduledResultTrue` |
| A hold asserted during the probes is not looked at before the claim (`runtime.js:678`) | by reading; the hold takes effect at the next tick | - |
| The deletion of a restored session broadcasts no directory (`runtime.js:865`; `DOCUMENTATION.md:203-207`) | `queue_edits` with `StoredQueues <- OneStored` | `LastBroadcastNamesDirectory` |
| Evictions are broadcast under the previous revision (`runtime.js:763`), and a deletion without a directory clears no guard in the client (`messageQueueStore.ts:490-526`): a snapshot that arrives later undoes them | `projection_converges` with `unguarded` left out of the properties | `NoResurrection`, `ShownConverges` |
| A read of a session that fails after its mutation has failed (`messageQueueStore.ts:551-553`), or a resync that fails (`message-queue-sync.ts:29`, `messageQueueStore.ts:861-866`), keeps what is shown, and nobody retries: a message the user took off the screen stays queued, and is sent, without being shown, until the session is broadcast or read again | `projection_converges` with `unread` left out of the property | `ShownConverges` |
| An entry registered between the reads of a tick and its loop may be given the answer of an earlier run (`dispatch-results/runtime.js:403`) | `dispatch_crashes` with `MAX_ENTRIES = 2`, `MaxRuns = 2` | `AnswersTheDispatch` |
| A record may be read later than the idle event, and a prompt may wait for its run: the record that differs from the baseline is then an earlier run's (`dispatch-results/runtime.js:403`, `openchamber-sessions/routes.js`) | `dispatch_faults` + "trails" or "startsLater" | `AnswersTheDispatch` |
| A record that comes after the last recheck is looked for no more: the rechecks are spent while the prompt waits for its run, the idle event of that run is lost in a gap of the hub, and the read after the reconnect finds the record missing and arms nothing (`dispatch-results/runtime.js:436-440`, reset only at 433 and 517) | `dispatch_live` with `forsaken` left out of the properties | `NoStrandedResult`, `PromiseKept` |
| A failed write is logged and forgotten (`dispatch-results/runtime.js:278`, `485`) | `dispatch_crashes` + "writeFails" | `DeliveredOnce`, `PromiseOnDisk` |
| A rebind forgets that the reader was connected (`event-stream/runtime.js:193-195`, `global-hub.js:179-191`), so clients that stay connected get no fresh ready (`global-ws-bridge.js:126`) and never read what was said meanwhile; `event-stream/DOCUMENTATION.md:62` promises one on a reconnect | `hub_stream` with `Connect` excusing nobody | `NoSilentGap` |
| A client does not read again at its first ready, nor at one in the boot window (`sync-context.tsx:3055`, `3058`), though its bootstrap may have read before the gap | `hub_stream` with `ReceiveReady` excusing nobody | `NoSilentGap` |
| A re-read asked for while another is under way is dropped (`sync-context.tsx:2712`): the answers of the first may be older than the gap that asked for the second | `hub_stream` with `ReceiveReady` excusing nobody when `resync` is "answered" | `NoSilentGap` |
| A re-read that fails is not repeated (`sync-context.tsx:1499-1501`, `1532`, `2721-2723`), and one reads only the sessions that looked active (1521-1523): what else the gap hid stays missing until the session is opened, or its status is polled. The comment at 2722 counts on the watchdog, the next event or a reconnect; none of them must come | `hub_stream` with `ReadFails` excusing nobody | `NoSilentGap` |
| The same of permission requests: a re-read that is skipped in the boot window, dropped while one is under way, failed, or without sessions that did not look active leaves a request asked in the gap, or one whose release was lost in it, off the screen | `permissions_policy` with `overlooked` left out of the properties | `NoHiddenRequest`, `EventuallyAttended` |
| The list of a re-read replaces what is shown of every session it has requests of (`sync-context.tsx:1487-1489`), though "preserving any in-flight SSE updates that arrived while the request was pending" (1348-1350): it takes a request asked meanwhile off the screen, and puts an answered one back | `permissions_policy` with two requests and `overlooked` left out of the property | `NoHiddenRequest` |
| A lineage is walked over lookups while the policy changes twice, child to `ask` and then parent to `auto` (`permission-auto-accept/runtime.js:216-233`): the reply was allowed at no time; `DOCUMENTATION.md:15` says a child `ask` overrides | `permissions_policy` with `MaxChanges = 2` | `RepliesAuthorised` |
| One rejected write leaves `writePromise` rejected (`runtime.js:106`): no mode can be set until a restart | in `permissions_policy`, as `poisoned`; the properties hold | - |
| The default mode of a new session is chained to the writes only after two reads (`runtime.js:148`): its first request is not answered; a reconciliation that runs is joined, not repeated, so it may miss a mode set meanwhile | in `permissions_policy`, as `missed`; `AutoLeavesNothing` excepts them | - |
| After the safety net has decided, the mode is not looked at again (`runtime.js:247`) | by reading; the answer was allowed when asked | - |
| A client reads modes again only when its SDK changes, not after a gap of the stream | in `permissions_policy` ("disconnect"), the properties hold for one change | - |

## 7. Plan

Done, in this order: `QueueServer` and `MessageQueue` (the most state and the most
interleavings), its proofs, `QueueProjection`, `ResultPromise` and `DispatchResults`
with their proofs, `EventHub`, `PermissionAutoAccept` and its proofs, the results and
the order of `MessageQueue`; then the proofs of what the runs check of the queue, the
projection, dispatches, requests and the event stream.

Models that would add most from here:
1. *Durable queue*: write chain and crash in `MessageQueue`, `Prepare` as steps per
   context message; at-most-once and at-least-once across a crash as properties.
2. *SessionGoal*: quiet-window ticks; one continuation per turn, abort pauses.
3. *ScheduledTasks*: two instances, occurrence claims, watchdog; composed with
   `MessageQueue` through `Enqueue`, `CancelScheduledTask` and the reported result.
4. `forgetQueue`, runtime switch and `reorderQueue` in `QueueProjection`; a failing
   first load in `DispatchResults`.
5. Relay scheduler and host lock; session work and read cache; the UI's loader.

Proofs: every safety property of a passing run has its theorem, some under the
hypotheses of section 4. What would weaken a hypothesis is a change of the code.

**Not modelled, and why.** Most of the repository's lines are presentation (the UI),
wrappers of command lines and web services (git, forges, trackers), operating-system
supervision (containers, terminals, desktop shells), text (translations, the site)
and request handlers over one file; they keep no state that more than one actor
changes, and what can go wrong in them a test reaches. `PROJECT.json` has a line for
each. Session goal, scheduled tasks, relay, git operations, source-control mutations
and session work do have such state and are the list above.
