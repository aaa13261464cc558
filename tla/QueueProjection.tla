--------------------------- MODULE QueueProjection ---------------------------
(***************************************************************************)
(* The queues as a client shows them (packages/ui/src/stores/              *)
(* messageQueueStore.ts): a projection kept up to date over three channels *)
(* that overtake each other - broadcasts of one session, responses to the  *)
(* client's own mutations, and snapshots of everything - each carrying the *)
(* server's revision.  The server is what commit, broadcast, persist and   *)
(* load of packages/web/server/lib/message-queue/runtime.js make of it.    *)
(*                                                                         *)
(* One client, one runtime, one owner of queues.  A queue is the set of    *)
(* its items; what a client added and the server has not yet acknowledged  *)
(* is the Draft.  The server has other sessions than Sessions too.         *)
(***************************************************************************)
EXTENDS Naturals, Sequences, FiniteSets

CONSTANTS
  Sessions,
  Behaviours,   \* the optional steps that happen
  MaxId,        \* bound: items ever created
  MaxRevision,  \* bound: revision
  MaxStream,    \* bound: broadcasts on their way
  MaxCalls,     \* bound: calls and responses on their way
  MaxFaults     \* bound: steps that go wrong, of all kinds together

ASSUME ProjectionBounds ==
  /\ MaxId \in Nat /\ MaxRevision \in Nat \ {0} /\ MaxStream \in Nat
  /\ MaxCalls \in Nat /\ MaxFaults \in Nat

Items == 1 .. MaxId
NoItem == 0
Draft == MaxId + 1
Revisions == 0 .. MaxRevision
Never == 0   \* no revision applied: -1 in the code, where no message has revision 0

VARIABLES
  \* the server
  queues, revision, sending, created,
  directories,  \* sessions whose directory it remembers
  unsaved,      \* the write chain
  disk,         \* the queue file
  \* channels
  connected,    \* the event stream
  stream,       \* broadcasts, in order
  calls,        \* calls of the client the server has not handled
  replies,      \* responses the client has not applied
  \* the client
  shown,        \* queuedMessages
  shownSending, \* sendingIds
  applied,      \* appliedRevisions
  snapshotRevision,
  resyncRequested, \* a recovery edge came while a snapshot was being read
  \* history
  retired,      \* items that a message of the server took off the screen
  unguarded,    \* items whose departure a late snapshot may undo
  unread,       \* sessions of which a read has failed, and of which nothing has
                \* been asked or said since
  faults

server   == <<queues, revision, sending, created, directories, unsaved, disk>>
client   == <<shown, shownSending, applied, snapshotRevision, retired>>
rest     == <<resyncRequested, unguarded, unread, faults>>
vars     == <<server, connected, stream, calls, replies, client, rest>>

Server == INSTANCE QueueServer

View == [items : SUBSET Items, sendingId : Items \cup {NoItem}]
File == [queues : [Sessions -> SUBSET Items], revision : Revisions]
Call == [op : {"add", "clear", "refresh"}, session : Sessions]
        \cup [op : {"remove", "take"}, session : Sessions, item : Items]
        \cup {[op |-> "hydrate"]}
Hydration == [op |-> "hydrate"]
ReadAgain(s) == [op |-> "refresh", session |-> s]
Scope(call) == IF call.op = "hydrate" THEN Sessions ELSE {call.session}

\* What server, channels and client hold; the draft is only ever shown, never
\* queued or sent.
TypeOK ==
  /\ queues \in [Sessions -> SUBSET Items]
  /\ revision \in Revisions
  /\ sending \in [Sessions -> Items \cup {NoItem}]
  /\ created \in 0 .. MaxId
  /\ directories \subseteq Sessions
  /\ disk \in File /\ unsaved \in Seq(File)
  /\ connected \in BOOLEAN
  /\ stream \in Seq([session : Sessions, view : View, revision : Revisions, named : BOOLEAN])
  /\ calls \subseteq Call
  /\ \A r \in replies :
       /\ r.call \in Call /\ r.revision \in Revisions /\ r.named \in BOOLEAN
       /\ r.views \in [Scope(r.call) -> View]
  /\ shown \in [Sessions -> SUBSET (Items \cup {Draft})]
  /\ shownSending \in [Sessions -> Items \cup {NoItem}]
  /\ applied \in [Sessions -> Revisions]
  /\ snapshotRevision \in Revisions
  /\ retired \subseteq Items
  /\ resyncRequested \in BOOLEAN
  /\ unguarded \subseteq Items /\ unread \subseteq Sessions
  /\ faults \in 0 .. MaxFaults

Happens(behaviour) == behaviour \in Behaviours

GoesWrong(behaviour) ==
  /\ Happens(behaviour) /\ faults < MaxFaults
  /\ faults' = faults + 1

Init ==
  /\ queues = [s \in Sessions |-> {}] /\ created = 0 /\ revision = 1
  /\ sending = [s \in Sessions |-> NoItem]
  /\ directories = {}
  /\ unsaved = <<>> /\ disk = [queues |-> queues, revision |-> 1]
  /\ connected = TRUE /\ stream = <<>> /\ calls = {Hydration} /\ replies = {}
  /\ shown = [s \in Sessions |-> {}] /\ shownSending = sending
  /\ applied = [s \in Sessions |-> Never] /\ snapshotRevision = Never
  /\ retired = {} /\ resyncRequested = FALSE /\ faults = 0
  /\ unguarded = {} /\ unread = {}

-----------------------------------------------------------------------------
(* The server *)

\* broadcast of session s as it is after the step.
Message(s, rev, named) ==
  [session |-> s, revision |-> rev, named |-> named,
   view |-> [items |-> queues'[s], sendingId |-> sending'[s]]]

Send(message) ==
  IF connected
  THEN /\ Len(stream) < MaxStream /\ stream' = Append(stream, message)
       /\ unread' = IF message.named THEN unread \ {message.session} ELSE unread
  ELSE UNCHANGED <<stream, unread>>

Saves ==
  unsaved' = IF Happens("restart")
             THEN Append(unsaved, [queues |-> queues', revision |-> revision'])
             ELSE unsaved

\* commit: bump, persist, broadcast.
Commit(s, named) ==
  /\ revision < MaxRevision
  /\ revision' = revision + 1
  /\ Saves
  /\ Send(Message(s, revision', named))
  /\ UNCHANGED disk

\* setQueueItems remembers the directory, which the commit then names.
Enqueue(s) ==
  /\ created < MaxId
  /\ created' = created + 1
  /\ queues' = [queues EXCEPT ![s] = @ \cup {created'}]
  /\ directories' = directories \cup {s}
  /\ UNCHANGED sending
  /\ Commit(s, TRUE)

Drop(s, i) ==
  /\ i \in queues[s] /\ sending[s] # i
  /\ queues' = [queues EXCEPT ![s] = @ \ {i}]
  /\ directories' = directories \cup {s}
  /\ UNCHANGED <<sending, created>>
  /\ Commit(s, TRUE)

\* clear keeps the item in flight; without a queue it changes nothing.
Clear(s) ==
  /\ queues[s] # {}
  /\ queues' = [queues EXCEPT ![s] = @ \cap {sending[s]}]
  /\ directories' = directories \cup {s}
  /\ UNCHANGED <<sending, created>>
  /\ Commit(s, TRUE)

\* An enqueue elsewhere over MAX_SESSIONS: the session it evicts is broadcast
\* before the revision is bumped.
Evict(s) ==
  /\ GoesWrong("evict")
  /\ queues[s] # {} /\ sending[s] = NoItem
  /\ revision < MaxRevision
  /\ queues' = [queues EXCEPT ![s] = {}]
  /\ directories' = directories \ {s}
  /\ revision' = revision + 1
  /\ unguarded' = unguarded \cup queues[s]   \* broadcast under the old revision
  /\ UNCHANGED <<sending, created, disk>>
  /\ Saves
  /\ Send(Message(s, revision, s \in directories))

\* The session is deleted: its directory is what the map remembers, and is
\* forgotten after the broadcast.
DropDeletedSession(s) ==
  /\ GoesWrong("delete")
  /\ queues[s] # {}
  /\ queues' = [queues EXCEPT ![s] = {}]
  /\ directories' = directories \ {s}
  /\ unguarded' = IF s \in directories THEN unguarded ELSE unguarded \cup queues[s]
  /\ UNCHANGED <<sending, created>>
  /\ Commit(s, s \in directories)

Named(s) == queues[s] # {} \/ s \in directories

\* The dispatch loop claims an item and broadcasts it under the old revision;
\* the send fails, likewise;
Claims(s, i) ==
  /\ Server!Claim(s, i)
  /\ Send(Message(s, revision, TRUE))
  /\ UNCHANGED <<created, directories, unsaved, disk>>

SendFails(s) ==
  /\ GoesWrong("sendFails")
  /\ Server!Release(s)
  /\ Send(Message(s, revision, Named(s)))
  /\ UNCHANGED <<created, directories, unsaved, disk>>

\* or it is settled.
SendSucceeds(s) ==
  /\ sending[s] # NoItem
  /\ queues' = [queues EXCEPT ![s] = @ \ {sending[s]}]
  /\ sending' = [sending EXCEPT ![s] = NoItem]
  /\ directories' = IF queues[s] # {} THEN directories \cup {s} ELSE directories
  /\ UNCHANGED created
  /\ Commit(s, Named(s))

\* What the server does by itself, and for other clients.
ServerSteps ==
  /\ \E s \in Sessions :
       \/ /\ Enqueue(s) \/ SendSucceeds(s) \/ \E i \in Items : Drop(s, i) \/ Claims(s, i)
          /\ UNCHANGED <<unguarded, faults>>
       \/ SendFails(s) /\ UNCHANGED unguarded
       \/ DropDeletedSession(s) \/ Evict(s)
  /\ UNCHANGED <<connected, calls, replies, client, resyncRequested>>

\* The response to a call, with the queues as they are after it; a read of
\* everything lists the sessions that have a queue, and its client knows the
\* directory of the one it reads again.
Answer(call) ==
  LET read  == call.op \in {"refresh", "hydrate"}
      after == [s \in Scope(call) |->
                  [items |-> queues'[s],
                   sendingId |-> IF read /\ queues'[s] = {} THEN NoItem ELSE sending'[s]]]
  IN  replies' = replies \cup {[call |-> call, views |-> after, revision |-> revision',
                                named |-> read \/ Named(call.session)']}

Handle(call) ==
  /\ calls' = calls \ {call}
  /\ \/ call.op = "add" /\ Enqueue(call.session)
     \/ call.op \in {"remove", "take"} /\ Drop(call.session, call.item)
     \/ /\ call.op = "remove"                     \* it is not there any more
        /\ call.item \notin queues[call.session] /\ sending[call.session] # call.item
        /\ UNCHANGED <<server, stream, unread>>
     \/ call.op = "clear" /\ Clear(call.session)
     \/ /\ call.op = "clear" /\ queues[call.session] = {}
        /\ UNCHANGED <<server, stream, unread>>
     \/ /\ call.op \in {"refresh", "hydrate"}
        /\ UNCHANGED <<server, stream, unread>>
  /\ Answer(call)
  /\ UNCHANGED <<connected, client, resyncRequested, unguarded, faults>>

WriteEnds ==
  /\ unsaved # <<>>
  /\ disk' = Head(unsaved)
  /\ unsaved' = Tail(unsaved)
  /\ UNCHANGED <<queues, revision, sending, created, directories,
                 connected, stream, calls, replies, client, rest>>

-----------------------------------------------------------------------------
(* The client: what it does with a message *)

\* Mutant: nothing is outdated.
NothingOutdated(s, rev) == FALSE

\* A message about session s is older than what is shown.
Outdated(s, rev) == snapshotRevision > rev \/ applied[s] > rev

\* applyServerSession with a directory.
Show(s, view, rev) ==
  /\ shown' = [shown EXCEPT ![s] = view.items]
  /\ shownSending' = [shownSending EXCEPT ![s] = view.sendingId]
  /\ applied' = [applied EXCEPT ![s] = rev]
  /\ retired' = retired \cup ((shown[s] \ view.items) \ {Draft})
  /\ UNCHANGED snapshotRevision

ApplyServerSession(s, view, rev) ==
  IF Outdated(s, rev) THEN UNCHANGED client ELSE Show(s, view, rev)

\* Without one it can only say that the session's queue is done; what is not
\* shown keeps its revision (clearSessionProjection).
ApplyUnnamedSession(s, view, rev) ==
  IF view.items # {} \/ Outdated(s, rev) \/ (shown[s] = {} /\ shownSending[s] = NoItem)
  THEN UNCHANGED client
  ELSE Show(s, [items |-> {}, sendingId |-> NoItem], rev)

\* A session whose message is newer than a snapshot keeps what it shows.
Keeps(s, rev) == applied[s] > rev

\* applyOwnerSnapshot; a session without queue keeps its applied revision.
ApplyOwnerSnapshot(views, rev) ==
  IF snapshotRevision > rev THEN UNCHANGED client
  ELSE LET replaced == {s \in Sessions : ~Keeps(s, rev)} IN
       /\ snapshotRevision' = rev
       /\ shown' = [s \in Sessions |-> IF s \in replaced THEN views[s].items ELSE shown[s]]
       /\ shownSending' = [s \in Sessions |-> IF s \in replaced THEN views[s].sendingId
                                              ELSE shownSending[s]]
       /\ applied' = [s \in Sessions |-> IF s \in replaced /\ views[s].items # {} THEN rev
                                         ELSE applied[s]]
       /\ retired' = retired \cup ((UNION {shown[s] \ views[s].items : s \in replaced}) \ {Draft})

-----------------------------------------------------------------------------
(* The client: its steps *)

ReceiveBroadcast ==
  /\ stream # <<>>
  /\ stream' = Tail(stream)
  /\ LET m == Head(stream) IN
     IF m.named THEN ApplyServerSession(m.session, m.view, m.revision)
     ELSE ApplyUnnamedSession(m.session, m.view, m.revision)
  /\ UNCHANGED <<server, connected, calls, replies, rest>>

Underway == calls \cup {r.call : r \in replies}

Ask(call) ==
  /\ connected /\ Cardinality(calls) + Cardinality(replies) < MaxCalls
  /\ call \notin Underway
  /\ calls' = calls \cup {call}
  /\ UNCHANGED <<server, connected, stream, replies, shownSending, applied,
                 snapshotRevision, retired, rest>>

\* Mutant: the draft is shown as being sent.
AddToQueueSending(s) ==
  /\ connected /\ Cardinality(calls) + Cardinality(replies) < MaxCalls
  /\ [op |-> "add", session |-> s] \notin Underway
  /\ calls' = calls \cup {[op |-> "add", session |-> s]}
  /\ shown' = [shown EXCEPT ![s] = @ \cup {Draft}]
  /\ shownSending' = [shownSending EXCEPT ![s] = Draft]
  /\ UNCHANGED <<server, connected, stream, replies, applied, snapshotRevision,
                 retired, rest>>

\* addToQueue, removeFromQueue and clearQueue show their effect at once,
\* takeForSend waits.
AddToQueue(s) ==
  /\ Ask([op |-> "add", session |-> s])
  /\ shown' = [shown EXCEPT ![s] = @ \cup {Draft}]

RemoveFromQueue(s, i) ==
  /\ i \in shown[s]
  /\ Ask([op |-> "remove", session |-> s, item |-> i])
  /\ shown' = [shown EXCEPT ![s] = @ \ {i}]

TakeForSend(s, i) ==
  /\ Happens("take")
  /\ i \in shown[s]
  /\ Ask([op |-> "take", session |-> s, item |-> i])
  /\ UNCHANGED shown

ClearQueue(s) ==
  /\ Happens("clear")
  /\ shown[s] # {}
  /\ Ask([op |-> "clear", session |-> s])
  /\ shown' = [shown EXCEPT ![s] = @ \cap {shownSending[s]}]

\* Mutant: a recovery edge joins the read that is under way.
ReadEverythingOnce ==
  /\ calls' = IF Hydration \in Underway THEN calls ELSE calls \cup {Hydration}
  /\ unread' = {} /\ UNCHANGED resyncRequested

\* resync: a read that is under way may be older than the edge, and earns
\* another one.
ReadEverything ==
  /\ unread' = {}
  /\ IF Hydration \in Underway
     THEN resyncRequested' = TRUE /\ UNCHANGED calls
     ELSE calls' = calls \cup {Hydration} /\ UNCHANGED resyncRequested

\* Other recovery edges than a reconnect.
Hydrate ==
  /\ Happens("hydrate")
  /\ connected /\ Cardinality(calls) + Cardinality(replies) < MaxCalls
  /\ ReadEverything
  /\ UNCHANGED <<server, connected, stream, replies, client, unguarded, faults>>

\* The response arrives.  That to an add drops the draft, whatever it says.
ReceiveReply(r) ==
  /\ replies' = replies \ {r}
  /\ \/ /\ r.call.op = "hydrate"
        /\ ApplyOwnerSnapshot(r.views, r.revision)
        /\ resyncRequested' = FALSE
        /\ calls' = IF resyncRequested THEN calls \cup {Hydration} ELSE calls
     \/ /\ r.call.op \in {"remove", "take", "clear", "refresh"}
        /\ UNCHANGED <<calls, resyncRequested>>
        /\ LET view == r.views[r.call.session] IN
           IF r.named THEN ApplyServerSession(r.call.session, view, r.revision)
           ELSE ApplyUnnamedSession(r.call.session, view, r.revision)
     \/ /\ r.call.op = "add"
        /\ UNCHANGED <<calls, resyncRequested>>
        /\ LET s == r.call.session IN
           IF Outdated(s, r.revision)
           THEN /\ shown' = [shown EXCEPT ![s] = @ \ {Draft}]
                /\ UNCHANGED <<shownSending, applied, snapshotRevision, retired>>
           ELSE Show(s, r.views[s], r.revision)
  /\ UNCHANGED <<server, connected, stream, unguarded, unread, faults>>

\* The server refuses: 409 for the item in flight, 404 for one that cannot be
\* taken any more.  The client reads the session again.
CallRefused(call) ==
  LET s == call.session IN
  /\ call.op \in {"remove", "take"}
  /\ sending[s] = call.item \/ (call.op = "take" /\ call.item \notin queues[s])
  /\ calls' = (calls \ {call}) \cup {ReadAgain(s)} /\ unread' = unread \ {s}
  /\ UNCHANGED <<server, connected, stream, replies, client, resyncRequested, unguarded, faults>>

\* What is asked when a call fails: after a mutation the session is read again, and
\* after a read of everything the trailing one follows, if there is to be one.
NextRead(call) ==
  IF call.op \in {"remove", "take", "clear"} THEN {ReadAgain(call.session)}
  ELSE IF call = Hydration /\ resyncRequested THEN {Hydration} ELSE {}

\* A call fails, in the request or in the response, with the stream up: an add
\* loses its draft; a read keeps what is shown, and nobody retries it.
Fails(call, others) ==
  /\ calls' = others \cup NextRead(call)
  /\ resyncRequested' = (resyncRequested /\ call # Hydration)
  /\ shown' = IF call.op = "add" THEN [shown EXCEPT ![call.session] = @ \ {Draft}] ELSE shown
  /\ LET failed == IF call.op \in {"refresh", "hydrate"} THEN Scope(call) ELSE {} IN
     unread' = {s \in unread \cup failed :
                  Hydration \notin calls' /\ ~resyncRequested' /\ ReadAgain(s) \notin calls'}
  /\ UNCHANGED <<server, connected, stream, shownSending, applied, snapshotRevision,
                 retired, unguarded>>

RequestLost(call) == GoesWrong("requestLost") /\ Fails(call, calls \ {call}) /\ UNCHANGED replies
ReplyLost(r) == GoesWrong("replyLost") /\ replies' = replies \ {r} /\ Fails(r.call, calls)

-----------------------------------------------------------------------------
(* Outages *)

\* Calls fail, a draft is given up, a failed read keeps what is shown.
ConnectionBreaks ==
  /\ connected' = FALSE
  /\ stream' = <<>> /\ calls' = {} /\ replies' = {}
  /\ shown' = [s \in Sessions |-> shown[s] \ {Draft}]
  /\ resyncRequested' = FALSE
  /\ UNCHANGED <<shownSending, applied, snapshotRevision, retired>>

Disconnect ==
  /\ connected /\ GoesWrong("disconnect")
  /\ ConnectionBreaks
  /\ UNCHANGED <<server, unguarded, unread>>

\* The event stream alone breaks: broadcasts are lost, requests are answered.
StreamGap ==
  /\ connected /\ GoesWrong("gap")
  /\ connected' = FALSE
  /\ stream' = <<>>
  /\ UNCHANGED <<server, calls, replies, client, resyncRequested, unguarded, unread>>

\* The process exits, in a crash with writes pending, and starts from its file.
Restart ==
  /\ unsaved # <<>> => Happens("crash")
  /\ GoesWrong("restart")
  /\ ConnectionBreaks
  /\ queues' = disk.queues /\ revision' = disk.revision
  /\ sending' = [s \in Sessions |-> NoItem] /\ directories' = {} /\ unsaved' = <<>>
  /\ UNCHANGED <<created, disk, unguarded, unread>>

\* event-stream-ready: resync.
Reconnect ==
  /\ ~connected
  /\ connected' = TRUE
  /\ ReadEverything
  /\ UNCHANGED <<server, stream, replies, client, unguarded, faults>>

-----------------------------------------------------------------------------
ClientSteps ==
  \/ ReceiveBroadcast \/ Hydrate
  \/ \E s \in Sessions : AddToQueue(s) \/ ClearQueue(s)
                       \/ \E i \in Items : RemoveFromQueue(s, i) \/ TakeForSend(s, i)
  \/ \E r \in replies : ReceiveReply(r) \/ ReplyLost(r)

Next ==
  \/ ServerSteps \/ WriteEnds
  \/ \E call \in calls : Handle(call) \/ CallRefused(call) \/ RequestLost(call)
  \/ ClientSteps
  \/ Disconnect \/ StreamGap \/ Restart \/ Reconnect

Spec == Init /\ [][Next]_vars

-----------------------------------------------------------------------------
(* Properties *)

Settled == connected /\ stream = <<>> /\ calls = {} /\ replies = {}

\* However broadcasts, responses and snapshots overtake each other, once they
\* all have arrived a client shows exactly what is queued.  Only an item of an
\* evicted session, or of a deleted one whose directory was not known, may be
\* back: no revision guards its departure.  And a session of which a read has
\* failed may be shown wrongly until it is broadcast or read again.
ShownConverges ==
  Settled => \A s \in Sessions \ unread :
               queues[s] \subseteq shown[s] /\ shown[s] \subseteq queues[s] \cup unguarded

\* What a message of the server took off the screen, sent or removed, is never
\* shown again by a late one, with the same exception.
NoResurrection == \A s \in Sessions : shown[s] \cap retired \subseteq unguarded
=============================================================================
