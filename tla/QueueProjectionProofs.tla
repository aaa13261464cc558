------------------------ MODULE QueueProjectionProofs ------------------------
(***************************************************************************)
(* Theorems about QueueProjection: its types, that what left the screen is *)
(* not shown again, and that a client converges to what is queued - for    *)
(* any sessions, bounds and faults but a crash that loses writes.          *)
(***************************************************************************)
EXTENDS QueueProjection, SequenceTheorems, TLAPS

-----------------------------------------------------------------------------
(* Types *)

Broadcasts == [session : Sessions, view : View, revision : Revisions, named : BOOLEAN]

\* What Server says of a queue is what the model has.
ServerOK ==
  /\ queues \in [Sessions -> SUBSET Items]
  /\ revision \in Revisions
  /\ sending \in [Sessions -> Items \cup {NoItem}]
  /\ created \in 0 .. MaxId
  /\ directories \subseteq Sessions
  /\ disk \in File /\ unsaved \in Seq(File)

ReplyOK(r) ==
  /\ r.call \in Call /\ r.revision \in Revisions /\ r.named \in BOOLEAN
  /\ r.views \in [Scope(r.call) -> View]

ClientOK ==
  /\ shown \in [Sessions -> SUBSET (Items \cup {Draft})]
  /\ shownSending \in [Sessions -> Items \cup {NoItem}]
  /\ applied \in [Sessions -> Revisions]
  /\ snapshotRevision \in Revisions
  /\ retired \subseteq Items

LEMMA TypeParts ==
  /\ TypeOK <=>
       /\ ServerOK /\ ClientOK
       /\ connected \in BOOLEAN /\ stream \in Seq(Broadcasts) /\ calls \subseteq Call
       /\ \A r \in replies : ReplyOK(r)
       /\ resyncRequested \in BOOLEAN /\ unguarded \subseteq Items /\ unread \subseteq Sessions
       /\ faults \in 0 .. MaxFaults
  /\ TypeOK' <=>
       /\ ServerOK' /\ ClientOK'
       /\ connected' \in BOOLEAN /\ stream' \in Seq(Broadcasts) /\ calls' \subseteq Call
       /\ \A r \in replies' : ReplyOK(r)
       /\ resyncRequested' \in BOOLEAN /\ unguarded' \subseteq Items /\ unread' \subseteq Sessions
       /\ faults' \in 0 .. MaxFaults
BY DEF TypeOK, ServerOK, ClientOK, Broadcasts, ReplyOK

\* A call of the client is about a session or about everything.
LEMMA CallKinds ==
  ASSUME NEW call \in Call
  PROVE  /\ call.op \in {"add", "clear", "refresh", "remove", "take", "hydrate"}
         /\ call.op = "hydrate" <=> call = Hydration
         /\ call.op # "hydrate" => call.session \in Sessions /\ Scope(call) = {call.session}
         /\ call.op = "hydrate" => Scope(call) = Sessions
         /\ call.op \in {"remove", "take"} => call.item \in Items
BY DEF Call, Hydration, Scope

LEMMA FaultType ==
  ASSUME TypeOK, NEW behaviour, GoesWrong(behaviour)
  PROVE  faults' \in 0 .. MaxFaults
BY ProjectionBounds DEF GoesWrong, TypeOK

\* A commit that changes queues to something well typed.
LEMMA CommitType ==
  ASSUME TypeOK, NEW s \in Sessions, NEW rev \in Revisions, NEW named \in BOOLEAN,
         queues' \in [Sessions -> SUBSET Items], sending' \in [Sessions -> Items \cup {NoItem}],
         Send(Message(s, rev, named))
  PROVE  stream' \in Seq(Broadcasts) /\ unread' \subseteq Sessions
<1>1. Message(s, rev, named) \in Broadcasts
  BY DEF Message, Broadcasts, View
<1>2. stream \in Seq(Broadcasts) /\ unread \subseteq Sessions
  BY TypeParts
<1>3. Append(stream, Message(s, rev, named)) \in Seq(Broadcasts)
  BY <1>1, <1>2
<1> QED
  BY <1>2, <1>3 DEF Send

LEMMA SavesType ==
  ASSUME TypeOK, queues' \in [Sessions -> SUBSET Items], revision' \in Revisions, Saves
  PROVE  unsaved' \in Seq(File)
<1>1. [queues |-> queues', revision |-> revision'] \in File
  BY DEF File
<1>2. unsaved \in Seq(File)
  BY DEF TypeOK
<1>3. Append(unsaved, [queues |-> queues', revision |-> revision']) \in Seq(File)
  BY <1>1, <1>2
<1> QED
  BY <1>2, <1>3 DEF Saves

\* What an edit of session s changes.
Edits(s) ==
  \/ Enqueue(s) \/ Clear(s) \/ SendSucceeds(s) \/ \E i \in Items : Drop(s, i)
  \/ DropDeletedSession(s) \/ Evict(s)

LEMMA NextRevision ==
  ASSUME TypeOK, revision < MaxRevision
  PROVE  revision + 1 \in Revisions /\ revision + 1 > revision
BY ProjectionBounds DEF TypeOK, Revisions

LEMMA EditType ==
  ASSUME TypeOK, NEW s \in Sessions, Edits(s)
  PROVE  /\ ServerOK' /\ stream' \in Seq(Broadcasts) /\ unread' \subseteq Sessions
         /\ revision' = revision + 1
<1> USE DEF ServerOK
<1>1. /\ revision < MaxRevision /\ revision' = revision + 1 /\ Saves
      /\ \E rev \in {revision, revision'}, named \in BOOLEAN : Send(Message(s, rev, named))
      /\ disk' = disk
  <2>1. (s \in directories) \in BOOLEAN /\ Named(s) \in BOOLEAN
    BY DEF Named
  <2> QED
    BY <2>1 DEF Edits, Enqueue, Clear, SendSucceeds, Drop, DropDeletedSession, Evict, Commit
<1>2. /\ queues' \in [Sessions -> SUBSET Items]
      /\ sending' \in [Sessions -> Items \cup {NoItem}]
      /\ created' \in 0 .. MaxId /\ directories' \subseteq Sessions
  <2> USE ProjectionBounds DEF TypeOK, Items
  <2>1. CASE Enqueue(s)
    BY <2>1 DEF Enqueue
  <2>2. CASE Clear(s)
    BY <2>2 DEF Clear
  <2>3. CASE SendSucceeds(s)
    BY <2>3 DEF SendSucceeds
  <2>4. CASE \E i \in Items : Drop(s, i)
    BY <2>4 DEF Drop
  <2>5. CASE DropDeletedSession(s)
    BY <2>5 DEF DropDeletedSession
  <2>6. CASE Evict(s)
    BY <2>6 DEF Evict
  <2> QED
    BY <2>1, <2>2, <2>3, <2>4, <2>5, <2>6 DEF Edits
<1>3. revision' \in Revisions /\ revision \in Revisions
  BY <1>1, NextRevision DEF TypeOK
<1>4. unsaved' \in Seq(File) /\ disk' \in File
  BY <1>1, <1>2, <1>3, SavesType DEF TypeOK
<1>5. stream' \in Seq(Broadcasts) /\ unread' \subseteq Sessions
  BY <1>1, <1>2, <1>3, CommitType
<1> QED
  BY <1>1, <1>2, <1>3, <1>4, <1>5

\* The dispatch loop claims and releases.
LEMMA ClaimType ==
  ASSUME TypeOK, NEW s \in Sessions, SendFails(s) \/ \E i \in Items : Claims(s, i)
  PROVE  /\ ServerOK' /\ stream' \in Seq(Broadcasts) /\ unread' \subseteq Sessions
         /\ UNCHANGED <<queues, revision>>
<1>1. UNCHANGED <<queues, revision, created, directories, unsaved, disk>>
  BY DEF SendFails, Claims, Server!Claim, Server!Release
<1>2. sending' \in [Sessions -> Items \cup {NoItem}]
  BY DEF SendFails, Claims, Server!Claim, Server!Release, TypeOK
<1>3. \E named \in BOOLEAN : Send(Message(s, revision, named))
  <2>1. Named(s) \in BOOLEAN
    BY DEF Named
  <2> QED
    BY <2>1 DEF SendFails, Claims
<1> QED
  BY <1>1, <1>2, <1>3, CommitType DEF ServerOK, TypeOK

\* A response is well typed.
LEMMA AnswerType ==
  ASSUME TypeOK, NEW call \in calls, Answer(call), ServerOK'
  PROVE  \A r \in replies' : ReplyOK(r)
<1>1. call \in Call /\ Scope(call) \subseteq Sessions
  BY CallKinds DEF TypeOK
<1> DEFINE after == [s \in Scope(call) |->
                  [items |-> queues'[s],
                   sendingId |-> IF call.op \in {"refresh", "hydrate"} /\ queues'[s] = {}
                                 THEN NoItem ELSE sending'[s]]]
           reply == [call |-> call, views |-> after, revision |-> revision',
                     named |-> call.op \in {"refresh", "hydrate"} \/ Named(call.session)']
<1>2. after \in [Scope(call) -> View]
  BY <1>1 DEF View, ServerOK
<1>3. ReplyOK(reply)
  BY <1>1, <1>2 DEF ReplyOK, ServerOK, Named
<1>4. replies' = replies \cup {reply}
  BY DEF Answer
<1>5. \A r \in replies : ReplyOK(r)
  BY TypeParts
<1> QED
  BY <1>3, <1>4, <1>5

\* What is applied is well typed.
LEMMA ApplyType ==
  ASSUME TypeOK, NEW s \in Sessions, NEW view \in View, NEW rev \in Revisions,
         ApplyServerSession(s, view, rev) \/ ApplyUnnamedSession(s, view, rev) \/ Show(s, view, rev)
  PROVE  ClientOK'
<1>1. ClientOK
  BY TypeParts
<1>2. [items |-> {}, sendingId |-> NoItem] \in View
  BY DEF View
<1>3. ASSUME NEW v \in View, Show(s, v, rev) PROVE ClientOK'
  <2>1. v.items \subseteq Items /\ v.sendingId \in Items \cup {NoItem}
    BY DEF View
  <2> QED
    BY <1>1, <1>3, <2>1 DEF Show, ClientOK
<1>4. CASE UNCHANGED client
  BY <1>1, <1>4 DEF client, ClientOK
<1> QED
  BY <1>2, <1>3, <1>4 DEF ApplyServerSession, ApplyUnnamedSession

\* The sessions a snapshot replaces, and what it does when it is taken.
Replaced(rev) == {s \in Sessions : ~Keeps(s, rev)}

Taken(views, rev) ==
  /\ snapshotRevision' = rev
  /\ shown' = [s \in Sessions |-> IF s \in Replaced(rev) THEN views[s].items ELSE shown[s]]
  /\ shownSending' = [s \in Sessions |-> IF s \in Replaced(rev) THEN views[s].sendingId
                                         ELSE shownSending[s]]
  /\ applied' = [s \in Sessions |-> IF s \in Replaced(rev) /\ views[s].items # {} THEN rev
                                    ELSE applied[s]]
  /\ \A i \in retired' : i \in retired \/ (i # Draft /\ \E s \in Replaced(rev) : i \in shown[s] \ views[s].items)

LEMMA SnapshotType ==
  ASSUME TypeOK, NEW views \in [Sessions -> View], NEW rev \in Revisions,
         ApplyOwnerSnapshot(views, rev)
  PROVE  ClientOK'
<1>1. ClientOK
  BY TypeParts
<1>2. \A s \in Sessions : views[s].items \subseteq Items /\ views[s].sendingId \in Items \cup {NoItem}
  BY DEF View
<1>3. CASE UNCHANGED client
  BY <1>1, <1>3 DEF client, ClientOK
<1>4. CASE ~(UNCHANGED client)
  <2>1. Taken(views, rev)
    <3>1. retired' = retired \cup ((UNION {shown[s] \ views[s].items : s \in Replaced(rev)}) \ {Draft})
      BY <1>4 DEF ApplyOwnerSnapshot, Replaced
    <3>2. \A i \in retired' :
             i \in retired \/ (i # Draft /\ \E s \in Replaced(rev) : i \in shown[s] \ views[s].items)
      BY <3>1
    <3> QED
      BY <1>4, <3>2 DEF ApplyOwnerSnapshot, Taken, Replaced
  <2>2. shown' \in [Sessions -> SUBSET (Items \cup {Draft})]
    BY <1>1, <1>2, <2>1 DEF ClientOK, Taken
  <2>3. shownSending' \in [Sessions -> Items \cup {NoItem}] /\ applied' \in [Sessions -> Revisions]
    BY <1>1, <1>2, <2>1 DEF ClientOK, Taken
  <2>4. \A i \in retired' : i \in Items
    <3>1. \A s \in Replaced(rev) : shown[s] \subseteq Items \cup {Draft}
      BY <1>1 DEF ClientOK, Replaced
    <3> QED
      BY <1>1, <2>1, <3>1 DEF ClientOK, Taken
  <2> QED
    BY <2>1, <2>2, <2>3, <2>4 DEF ClientOK, Taken
<1> QED
  BY <1>3, <1>4

\* What a call or its response does.
LEMMA HandleType ==
  ASSUME TypeOK, NEW call \in calls, Handle(call)
  PROVE  TypeOK'
<1>1. call \in Call /\ ServerOK /\ stream \in Seq(Broadcasts) /\ unread \subseteq Sessions
  BY TypeParts
<1>2. ServerOK' /\ stream' \in Seq(Broadcasts) /\ unread' \subseteq Sessions
  <2>1. CASE UNCHANGED <<server, stream, unread>>
    BY <1>1, <2>1 DEF server, ServerOK
  <2>2. CASE ~UNCHANGED <<server, stream, unread>>
    <3>1. call.session \in Sessions /\ Edits(call.session)
      BY <1>1, <2>2, CallKinds DEF Handle, Edits
    <3> QED
      BY <3>1, EditType
  <2> QED
    BY <2>1, <2>2
<1>3. \A r \in replies' : ReplyOK(r)
  BY <1>2, AnswerType DEF Handle
<1>4. UNCHANGED <<connected, client, resyncRequested, unguarded, faults>> /\ calls' \subseteq calls
  BY DEF Handle
<1>5. ClientOK'
  BY <1>4, TypeParts DEF client, ClientOK
<1> QED
  BY <1>2, <1>3, <1>4, <1>5, TypeParts

LEMMA ReplyType ==
  ASSUME TypeOK, NEW r \in replies, ReceiveReply(r)
  PROVE  TypeOK'
<1>1. /\ r.call \in Call /\ r.revision \in Revisions
      /\ r.views \in [Scope(r.call) -> View]
  BY TypeParts DEF ReplyOK
<1>2. UNCHANGED <<server, connected, stream, unguarded, unread, faults>> /\ replies' \subseteq replies
  BY DEF ReceiveReply
<1>3. calls' \subseteq Call /\ resyncRequested' \in BOOLEAN
  BY DEF ReceiveReply, TypeOK, Call, Hydration
<1>4. ClientOK'
  <2>1. CASE r.call.op = "hydrate"
    BY <1>1, <2>1, CallKinds, SnapshotType DEF ReceiveReply
  <2>2. CASE r.call.op # "hydrate"
    <3>1. r.call.session \in Sessions /\ r.views[r.call.session] \in View
      BY <1>1, <2>2, CallKinds
    <3>2. CASE /\ shown' = [shown EXCEPT ![r.call.session] = @ \ {Draft}]
               /\ UNCHANGED <<shownSending, applied, snapshotRevision, retired>>
      BY <3>1, <3>2 DEF ClientOK, TypeOK
    <3> QED
      BY <1>1, <2>2, <3>1, <3>2, ApplyType DEF ReceiveReply
  <2> QED
    BY <2>1, <2>2
<1>5. ServerOK'
  BY <1>2, TypeParts DEF server, ServerOK
<1> QED
  BY <1>2, <1>3, <1>4, <1>5, TypeParts

LEMMA BroadcastType ==
  ASSUME TypeOK, ReceiveBroadcast
  PROVE  TypeOK'
<1> DEFINE m == Head(stream)
<1>1. stream \in Seq(Broadcasts) /\ stream # <<>>
  BY TypeParts DEF ReceiveBroadcast
<1>2. m \in Broadcasts /\ stream' \in Seq(Broadcasts)
  BY <1>1, HeadTailProperties DEF ReceiveBroadcast
<1>3. m.session \in Sessions /\ m.view \in View /\ m.revision \in Revisions
  BY <1>2 DEF Broadcasts
<1>4. ClientOK'
  BY <1>3, ApplyType DEF ReceiveBroadcast
<1>5. UNCHANGED <<server, connected, calls, replies, rest>>
  BY DEF ReceiveBroadcast
<1>6. ServerOK'
  BY <1>5, TypeParts DEF server, ServerOK
<1> QED
  BY <1>2, <1>4, <1>5, <1>6, TypeParts DEF rest

\* What the user does, or a call that fails, shows something else and makes calls.
UserSteps ==
  \/ Hydrate
  \/ \E s \in Sessions : AddToQueue(s) \/ ClearQueue(s)
                       \/ \E i \in Items : RemoveFromQueue(s, i) \/ TakeForSend(s, i)

LEMMA FailsType ==
  ASSUME TypeOK, NEW call \in Call, NEW others \in SUBSET Call, Fails(call, others)
  PROVE  /\ calls' \subseteq Call /\ resyncRequested' \in BOOLEAN /\ unread' \subseteq Sessions
         /\ shown' \in [Sessions -> SUBSET (Items \cup {Draft})]
<1>1. NextRead(call) \subseteq Call
  <2>1. call.op # "hydrate" => ReadAgain(call.session) \in Call
    BY CallKinds DEF ReadAgain, Call
  <2> QED
    BY <2>1 DEF NextRead, Hydration, Call
<1>2. Scope(call) \subseteq Sessions
  BY CallKinds
<1>3. shown' \in [Sessions -> SUBSET (Items \cup {Draft})]
  BY DEF Fails, TypeOK
<1> QED
  BY <1>1, <1>2, <1>3 DEF Fails, TypeOK

LEMMA UserType ==
  ASSUME TypeOK,
         \/ UserSteps \/ \E r \in replies : ReplyLost(r)
         \/ \E call \in calls : RequestLost(call)
  PROVE  TypeOK'
<1>1. ClientOK /\ ServerOK /\ calls \subseteq Call /\ \A r \in replies : ReplyOK(r)
  BY TypeParts
<1>2. UNCHANGED <<server, connected, stream, unguarded>> /\ replies' \subseteq replies
      /\ UNCHANGED <<shownSending, applied, snapshotRevision, retired>>
  BY DEF UserSteps, Hydrate, AddToQueue, ClearQueue, RemoveFromQueue, TakeForSend, Ask, ReplyLost,
         RequestLost, Fails, rest, client
<1>3. faults' \in 0 .. MaxFaults
  BY FaultType DEF UserSteps, Hydrate, AddToQueue, ClearQueue, RemoveFromQueue, TakeForSend, Ask,
        ReplyLost, RequestLost, rest, TypeOK
<1>4. CASE UserSteps
  <2>1. resyncRequested' \in BOOLEAN /\ unread' \subseteq Sessions
    BY <1>4 DEF UserSteps, Hydrate, AddToQueue, ClearQueue, RemoveFromQueue, TakeForSend, Ask,
          ReadEverything, rest, TypeOK
  <2>2. calls' \subseteq Call
    <3>1. CASE Hydrate
      BY <1>1, <3>1 DEF Hydrate, ReadEverything, Hydration, Call
    <3>2. ASSUME NEW s \in Sessions, AddToQueue(s) PROVE calls' \subseteq Call
      BY <1>1, <3>2 DEF AddToQueue, Ask, Call
    <3>3. ASSUME NEW s \in Sessions, ClearQueue(s) PROVE calls' \subseteq Call
      BY <1>1, <3>3 DEF ClearQueue, Ask, Call
    <3>4. ASSUME NEW s \in Sessions, NEW i \in Items, RemoveFromQueue(s, i) \/ TakeForSend(s, i)
          PROVE  calls' \subseteq Call
      BY <1>1, <3>4 DEF RemoveFromQueue, TakeForSend, Ask, Call
    <3> QED
      BY <1>4, <3>1, <3>2, <3>3, <3>4 DEF UserSteps
  <2>3. shown' \in [Sessions -> SUBSET (Items \cup {Draft})]
    <3>1. CASE \E s \in Sessions : AddToQueue(s)
      BY <1>1, <3>1 DEF AddToQueue, ClientOK
    <3>2. CASE \E s \in Sessions : ClearQueue(s)
      BY <1>1, <3>2 DEF ClearQueue, ClientOK
    <3>3. CASE \E s \in Sessions, i \in Items : RemoveFromQueue(s, i)
      BY <1>1, <3>3 DEF RemoveFromQueue, ClientOK
    <3>4. CASE UNCHANGED shown
      BY <1>1, <3>4 DEF ClientOK
    <3> QED
      BY <1>4, <3>1, <3>2, <3>3, <3>4 DEF UserSteps, Hydrate, TakeForSend, client
  <2>4. ClientOK' /\ ServerOK'
    BY <1>1, <1>2, <2>3 DEF server, ServerOK, ClientOK
  <2> QED
    BY <1>1, <1>2, <1>3, <2>1, <2>2, <2>4, TypeParts
<1>5. CASE (\E r \in replies : ReplyLost(r)) \/ \E call \in calls : RequestLost(call)
  <2>1. \E call \in Call, others \in SUBSET Call : Fails(call, others)
    BY <1>1, <1>5 DEF ReplyLost, RequestLost, ReplyOK
  <2>2. /\ calls' \subseteq Call /\ resyncRequested' \in BOOLEAN /\ unread' \subseteq Sessions
        /\ shown' \in [Sessions -> SUBSET (Items \cup {Draft})]
    BY <2>1, FailsType
  <2>3. ClientOK' /\ ServerOK'
    BY <1>1, <1>2, <2>2 DEF server, ServerOK, ClientOK
  <2> QED
    BY <1>1, <1>2, <1>3, <2>2, <2>3, TypeParts
<1> QED
  BY <1>4, <1>5

LEMMA OutageType ==
  ASSUME TypeOK, Disconnect \/ StreamGap \/ Restart \/ Reconnect
  PROVE  TypeOK'
<1>1. ClientOK /\ ServerOK /\ calls \subseteq Call /\ \A r \in replies : ReplyOK(r)
  BY TypeParts
<1>2. ClientOK'
  BY <1>1 DEF Disconnect, StreamGap, Restart, Reconnect, ConnectionBreaks, client, ClientOK
<1>3. ServerOK'
  <2>1. disk.queues \in [Sessions -> SUBSET Items] /\ disk.revision \in Revisions
    BY <1>1 DEF ServerOK, File
  <2>2. <<>> \in Seq(File) /\ [s \in Sessions |-> NoItem] \in [Sessions -> Items \cup {NoItem}]
    OBVIOUS
  <2>3. CASE Restart
    BY <1>1, <2>1, <2>2, <2>3 DEF Restart, ServerOK
  <2> QED
    BY <1>1, <2>3 DEF Disconnect, StreamGap, Reconnect, server, ServerOK
<1>4. stream' \in Seq(Broadcasts)
  <2>1. <<>> \in Seq(Broadcasts) /\ stream \in Seq(Broadcasts)
    BY TypeParts
  <2> QED
    BY <2>1 DEF Disconnect, StreamGap, Restart, Reconnect, ConnectionBreaks
<1>5. calls' \subseteq Call /\ replies' \subseteq replies
  BY <1>1 DEF Disconnect, StreamGap, Restart, Reconnect, ConnectionBreaks, ReadEverything, Hydration, Call
<1>6. connected' \in BOOLEAN /\ resyncRequested' \in BOOLEAN /\ unguarded' \subseteq Items
      /\ unread' \subseteq Sessions /\ faults' \in 0 .. MaxFaults
  BY FaultType DEF Disconnect, StreamGap, Restart, Reconnect, ConnectionBreaks, ReadEverything, TypeOK
<1> QED
  BY <1>1, <1>2, <1>3, <1>4, <1>5, <1>6, TypeParts

LEMMA ServerStepsType ==
  ASSUME TypeOK, ServerSteps
  PROVE  TypeOK'
<1>1. UNCHANGED <<connected, calls, replies, client, resyncRequested>>
  BY DEF ServerSteps
<1>2. PICK s \in Sessions : Edits(s) \/ SendFails(s) \/ \E i \in Items : Claims(s, i)
  BY DEF ServerSteps, Edits
<1>3. ServerOK' /\ stream' \in Seq(Broadcasts) /\ unread' \subseteq Sessions
  BY <1>2, EditType, ClaimType
<1>4. unguarded' \subseteq Items /\ faults' \in 0 .. MaxFaults
  BY FaultType DEF ServerSteps, SendFails, DropDeletedSession, Evict, TypeOK
<1>5. ClientOK'
  BY <1>1, TypeParts DEF client, ClientOK
<1> QED
  BY <1>1, <1>3, <1>4, <1>5, TypeParts

LEMMA OtherType ==
  ASSUME TypeOK, WriteEnds \/ UNCHANGED vars \/ \E call \in calls : CallRefused(call)
  PROVE  TypeOK'
<1>1. CASE UNCHANGED vars
  BY <1>1 DEF vars, server, client, rest, TypeOK, Scope
<1>2. CASE WriteEnds
  <2>1. Head(unsaved) \in File /\ Tail(unsaved) \in Seq(File)
    BY <1>2, HeadTailProperties DEF WriteEnds, TypeOK
  <2> QED
    BY <1>2, <2>1 DEF WriteEnds, client, rest, TypeOK, Scope
<1>3. ASSUME NEW call \in calls, CallRefused(call) PROVE TypeOK'
  <2>1. call.session \in Sessions
    BY <1>3, CallKinds DEF CallRefused, TypeOK
  <2>2. calls' \subseteq Call
    BY <1>3, <2>1 DEF CallRefused, ReadAgain, Call, TypeOK
  <2>3. unread' \subseteq Sessions
    BY <1>3 DEF CallRefused, TypeOK
  <2> QED
    BY <1>3, <2>2, <2>3 DEF CallRefused, server, client, TypeOK, Scope
<1> QED
  BY <1>1, <1>2, <1>3

LEMMA TypeStep ==
  ASSUME TypeOK, [Next]_vars
  PROVE  TypeOK'
BY HandleType, ReplyType, BroadcastType, UserType, OutageType, ServerStepsType, OtherType
   DEF Next, ClientSteps, UserSteps

LEMMA TypeInit ==
  ASSUME Init
  PROVE  TypeOK
<1>1. 1 \in Revisions /\ Never \in Revisions /\ 0 \in 0 .. MaxId /\ 0 \in 0 .. MaxFaults
  BY ProjectionBounds DEF Revisions, Never
<1>2. disk \in File
  BY <1>1 DEF Init, File
<1>3. ServerOK /\ ClientOK
  BY <1>1, <1>2 DEF Init, ServerOK, ClientOK
<1>4. Hydration \in Call
  BY DEF Call, Hydration
<1>5. calls \subseteq Call /\ \A r \in replies : ReplyOK(r)
  BY <1>4 DEF Init
<1>6. stream \in Seq(Broadcasts) /\ unguarded \subseteq Items /\ unread \subseteq Sessions
  BY DEF Init
<1> QED
  BY <1>1, <1>3, <1>5, <1>6, TypeParts DEF Init

\* What server, channels and client hold is well typed: a draft is only ever
\* shown, and no revision is beyond its bound.
THEOREM TypeCorrect == Spec => []TypeOK
<1>1. Init => TypeOK
  BY TypeInit
<1>2. TypeOK /\ [Next]_vars => TypeOK'
  BY TypeStep
<1> QED
  BY <1>1, <1>2, PTL DEF Spec

-----------------------------------------------------------------------------
(* What has been queued, and what messages say of it *)

\* The revision below which a message about session s is outdated.
Guard(s) == IF applied[s] > snapshotRevision THEN applied[s] ELSE snapshotRevision

Histories == [Nat -> [Sessions -> SUBSET Items]]

\* H is what was queued at each revision: ids are handed out once, to one session,
\* and what has left a queue does not come back.
Past(H) ==
  /\ H \in Histories
  /\ H[revision] = queues
  /\ \A r \in 0 .. revision, s \in Sessions : \A i \in H[r][s] : i <= created
  /\ \A a, c \in 0 .. revision, s, t \in Sessions : \A i \in H[a][s] \cap H[c][t] : s = t
  /\ \A s \in Sessions, a, b, c \in 0 .. revision :
       a <= b /\ b <= c => H[a][s] \cap H[c][s] \subseteq H[b][s]

\* Items is what was queued for s at revision rev, but for what no revision
\* guards; last is the latest revision.
Told(H, s, items, rev, last, departed) ==
  /\ rev \in 0 .. last
  /\ items \subseteq H[rev][s] /\ H[rev][s] \ items \subseteq departed

\* A message tells what was queued at its revision.
Truthful(H) ==
  /\ \A n \in DOMAIN stream :
       Told(H, stream[n].session, stream[n].view.items, stream[n].revision, revision, unguarded)
  /\ \A r \in replies : \A s \in Scope(r.call) :
       Told(H, s, r.views[s].items, r.revision, revision, unguarded)

\* The client shows what was queued at its guard, and what it retired has not
\* been queued since.
Seen(H) ==
  /\ \A s \in Sessions : Guard(s) \in 0 .. revision /\ shown[s] \ {Draft} \subseteq H[Guard(s)][s]
  /\ \A i \in retired \ unguarded, s \in Sessions : \A r \in Guard(s) .. revision : i \notin H[r][s]

\* What departed was created, and what is unguarded has departed.
Departed ==
  /\ \A s \in Sessions : queues[s] \cap unguarded = {}
  /\ \A i \in unguarded \cup retired : i <= created

Chronicle(H) == Past(H) /\ Truthful(H) /\ Seen(H) /\ Departed

\* The last write that is queued, or the file, has what is queued.
SavedLast ==
  Happens("restart") =>
    /\ unsaved = <<>> => disk = [queues |-> queues, revision |-> revision]
    /\ unsaved # <<>> => unsaved[Len(unsaved)] = [queues |-> queues, revision |-> revision]

-----------------------------------------------------------------------------
(* What steps do to the queues *)

\* A broadcast about s of revision rev is appended, if anybody listens.
Appends(s, rev, named) ==
  /\ stream' = IF connected THEN Append(stream, Message(s, rev, named)) ELSE stream
  /\ unread' = IF connected /\ named THEN unread \ {s} ELSE unread

\* The broadcast of an edit of s carries the new revision, or what the edit
\* takes is unguarded.
Announces(s, rev, named) ==
  /\ Appends(s, rev, named)
  /\ rev = revision => queues'[s] = {} /\ queues[s] \subseteq unguarded'
  /\ (named /\ rev = revision') \/ queues[s] \ unguarded' = queues'[s] \ unguarded'

EditEffect(s) ==
  /\ revision' = revision + 1
  /\ \A t \in Sessions \ {s} : queues'[t] = queues[t]
  /\ created' \in {created, created + 1}
  /\ \A i \in queues'[s] : i \in queues[s] \/ (i = created + 1 /\ created' = created + 1)
  /\ unguarded \subseteq unguarded' /\ unguarded' \ unguarded \subseteq queues[s] \ queues'[s]
  /\ Saves /\ UNCHANGED disk
  /\ \E rev \in {revision, revision'}, named \in BOOLEAN : Announces(s, rev, named)

LEMMA SendAppends ==
  ASSUME TypeOK, NEW s, NEW rev, NEW named, Send(Message(s, rev, named))
  PROVE  Appends(s, rev, named)
<1>1. Message(s, rev, named).session = s /\ Message(s, rev, named).named = named
  BY DEF Message
<1> QED
  BY <1>1 DEF Send, Appends

LEMMA EditEffects ==
  ASSUME TypeOK, NEW s \in Sessions, Edits(s),
         unguarded' = unguarded \/ DropDeletedSession(s) \/ Evict(s)
  PROVE  EditEffect(s)
<1>1. /\ queues \in [Sessions -> SUBSET Items] /\ created \in Nat /\ revision \in Nat
      /\ revision' = revision + 1 /\ revision' # revision
  BY EditType, ProjectionBounds DEF TypeOK, Revisions
<1>2. ASSUME NEW named \in BOOLEAN, Commit(s, named),
             named \/ queues[s] \ unguarded' = queues'[s] \ unguarded'
      PROVE  /\ Saves /\ UNCHANGED disk
             /\ \E rev \in {revision, revision'}, nmd \in BOOLEAN : Announces(s, rev, nmd)
  <2>1. Appends(s, revision', named) /\ Saves /\ UNCHANGED disk
    BY <1>2, SendAppends DEF Commit
  <2>2. Announces(s, revision', named)
    BY <1>1, <1>2, <2>1 DEF Announces
  <2> QED
    BY <2>1, <2>2
<1>3. CASE Enqueue(s) /\ unguarded' = unguarded
  <2>1. created' = created + 1 /\ queues' = [queues EXCEPT ![s] = @ \cup {created'}]
        /\ Commit(s, TRUE)
    BY <1>3 DEF Enqueue
  <2>2. Saves /\ UNCHANGED disk
        /\ \E rev \in {revision, revision'}, nmd \in BOOLEAN : Announces(s, rev, nmd)
    BY <1>2, <2>1
  <2>3. /\ \A t \in Sessions \ {s} : queues'[t] = queues[t]
        /\ \A i \in queues'[s] : i \in queues[s] \/ (i = created + 1 /\ created' = created + 1)
    BY <1>1, <2>1
  <2> QED
    BY <1>1, <1>3, <2>1, <2>2, <2>3 DEF EditEffect
<1>4. CASE (Clear(s) \/ SendSucceeds(s) \/ \E i \in Items : Drop(s, i)) /\ unguarded' = unguarded
  <2>1. /\ \A t \in Sessions \ {s} : queues'[t] = queues[t]
        /\ queues'[s] \subseteq queues[s] /\ created' = created
    BY <1>1, <1>4 DEF Clear, SendSucceeds, Drop
  <2>2. PICK named \in BOOLEAN : Commit(s, named) /\ (named \/ queues[s] = {})
    <3>1. Named(s) \in BOOLEAN /\ (~Named(s) => queues[s] = {})
      BY DEF Named
    <3> QED
      BY <1>4, <3>1 DEF Clear, SendSucceeds, Drop
  <2>3. Saves /\ UNCHANGED disk
        /\ \E rev \in {revision, revision'}, nmd \in BOOLEAN : Announces(s, rev, nmd)
    BY <1>2, <2>1, <2>2
  <2> QED
    BY <1>1, <1>4, <2>1, <2>3 DEF EditEffect
<1>5. CASE DropDeletedSession(s)
  <2>1. /\ queues' = [queues EXCEPT ![s] = {}] /\ created' = created
        /\ unguarded' = IF s \in directories THEN unguarded ELSE unguarded \cup queues[s]
        /\ Commit(s, s \in directories)
    BY <1>5 DEF DropDeletedSession
  <2>2. (s \in directories) \in BOOLEAN
    OBVIOUS
  <2>3. Saves /\ UNCHANGED disk
        /\ \E rev \in {revision, revision'}, nmd \in BOOLEAN : Announces(s, rev, nmd)
    BY <1>1, <1>2, <2>1, <2>2
  <2>4. \A t \in Sessions : queues'[t] = IF t = s THEN {} ELSE queues[t]
    BY <1>1, <2>1
  <2> QED
    BY <1>1, <2>1, <2>3, <2>4 DEF EditEffect
<1>6. CASE Evict(s)
  <2>1. /\ queues' = [queues EXCEPT ![s] = {}] /\ created' = created
        /\ unguarded' = unguarded \cup queues[s]
        /\ Saves /\ UNCHANGED disk /\ Send(Message(s, revision, s \in directories))
    BY <1>6 DEF Evict
  <2>2. \A t \in Sessions : queues'[t] = IF t = s THEN {} ELSE queues[t]
    BY <1>1, <2>1
  <2>3. Announces(s, revision, s \in directories)
    BY <1>1, <2>1, <2>2, SendAppends DEF Announces
  <2>4. (s \in directories) \in BOOLEAN
    OBVIOUS
  <2>5. \E rev \in {revision, revision'}, named \in BOOLEAN : Announces(s, rev, named)
    BY <2>3, <2>4
  <2> QED
    BY <1>1, <2>1, <2>2, <2>5 DEF EditEffect
<1> QED
  BY <1>3, <1>4, <1>5, <1>6 DEF Edits

\* What every step that is not a restart does to the queues: items leave, new
\* ids enter, each one session.
Moves ==
  /\ revision \in Nat /\ revision' \in {revision, revision + 1}
  /\ revision' = revision => queues' = queues
  /\ queues' \in [Sessions -> SUBSET Items]
  /\ created \in Nat /\ created' \in Nat /\ created <= created'
  /\ \A s \in Sessions : \A i \in queues'[s] :
       i \in queues[s] \/ (created < i /\ i <= created')
  /\ \A s, t \in Sessions : \A i \in queues'[s] \cap queues'[t] :
       i \in queues[s] \cap queues[t] \/ s = t
  /\ unguarded \subseteq unguarded' /\ unguarded' \subseteq Items
  /\ \A i \in unguarded' \ unguarded, s \in Sessions : i \notin queues'[s]
  /\ \A i \in unguarded' \ unguarded : i <= created

\* Nothing is edited.
Still == UNCHANGED <<queues, revision, created, unguarded>>

LEMMA StillMoves ==
  ASSUME TypeOK, Still
  PROVE  Moves
BY ProjectionBounds DEF TypeOK, Still, Moves, Items, Revisions

LEMMA EditMoves ==
  ASSUME TypeOK, TypeOK', NEW H, Past(H), NEW s \in Sessions, EditEffect(s)
  PROVE  Moves
<1>1. /\ queues \in [Sessions -> SUBSET Items] /\ queues' \in [Sessions -> SUBSET Items]
      /\ created \in Nat /\ created' \in Nat /\ revision \in Nat /\ unguarded' \subseteq Items
      /\ \A i \in Items : i \in Nat
  BY ProjectionBounds DEF TypeOK, Items, Revisions
<1>2. \A t \in Sessions : \A i \in queues[t] : i <= created
  BY <1>1 DEF Past
<1>3. \A t, u \in Sessions : \A i \in queues[t] \cap queues[u] : t = u
  BY <1>1 DEF Past
<1>4. \A t \in Sessions : \A i \in queues'[t] : i \in queues[t] \/ (created < i /\ i <= created')
  BY <1>1 DEF EditEffect
<1>5. \A t, u \in Sessions : \A i \in queues'[t] \cap queues'[u] :
        i \in queues[t] \cap queues[u] \/ t = u
  BY <1>1, <1>2 DEF EditEffect
<1>6. \A i \in unguarded' \ unguarded : i <= created /\ \A t \in Sessions : i \notin queues'[t]
  <2> SUFFICES ASSUME NEW i \in unguarded' \ unguarded, NEW t \in Sessions
               PROVE  i <= created /\ i \notin queues'[t]
    OBVIOUS
  <2>1. i \in queues[s] \ queues'[s]
    BY DEF EditEffect
  <2> QED
    BY <1>2, <1>3, <2>1 DEF EditEffect
<1> QED
  BY <1>1, <1>4, <1>5, <1>6 DEF EditEffect, Moves

\* G is H, continued by the step.
Continues(H, G) ==
  /\ G \in Histories
  /\ \A r \in 0 .. revision : G[r] = H[r]
  /\ G[revision'] = queues'

LEMMA Continuation ==
  ASSUME NEW H, Past(H), Moves
  PROVE  \E G : Continues(H, G)
<1>1. H \in Histories /\ H[revision] = queues /\ revision \in Nat /\ revision' \in Nat
      /\ queues' \in [Sessions -> SUBSET Items]
  BY DEF Past, Moves
<1> DEFINE G == [r \in Nat |-> IF r = revision' THEN queues' ELSE H[r]]
<1>2. G \in Histories
  BY <1>1 DEF Histories
<1>3. \A r \in 0 .. revision : G[r] = H[r]
  BY <1>1 DEF Moves
<1>4. G[revision'] = queues'
  BY <1>1
<1> HIDE DEF G
<1> QED
  BY <1>2, <1>3, <1>4 DEF Continues

LEMMA PastContinues ==
  ASSUME NEW H, NEW G, Past(H), Moves, Continues(H, G)
  PROVE  Past(G)'
<1>1. /\ revision \in Nat /\ revision' \in {revision, revision + 1} /\ created \in Nat /\ created' \in Nat
      /\ created <= created'
      /\ G \in Histories /\ G[revision'] = queues' /\ \A r \in 0 .. revision : G[r] = H[r]
      /\ H[revision] = queues /\ \A i \in Items : i \in Nat
  BY ProjectionBounds DEF Moves, Continues, Past, Items
<1>2. \A r \in 0 .. revision' : r \in 0 .. revision \/ r = revision'
  BY <1>1
<1>3. \A r \in 0 .. revision', s \in Sessions : G[r][s] \subseteq Items
  BY <1>1 DEF Histories
<1>5. \A r \in 0 .. revision', s \in Sessions : \A i \in G[r][s] : i <= created'
  <2> SUFFICES ASSUME NEW r \in 0 .. revision', NEW s \in Sessions, NEW i \in G[r][s]
               PROVE  i <= created'
    OBVIOUS
  <2>1. CASE r \in 0 .. revision
    BY <1>1, <1>3, <2>1 DEF Past
  <2>2. CASE r = revision'
    <3>1. i \in queues[s] => i <= created
      BY <1>1 DEF Past
    <3> QED
      BY <1>1, <1>3, <2>2, <3>1 DEF Moves
  <2> QED
    BY <1>2, <2>1, <2>2
<1>6. \A r \in 0 .. revision, s \in Sessions : \A i \in queues'[s] :
        i \in G[r][s] => i \in queues[s]
  <2> SUFFICES ASSUME NEW r \in 0 .. revision, NEW s \in Sessions, NEW i \in queues'[s], i \in G[r][s]
               PROVE  i \in queues[s]
    OBVIOUS
  <2>1. i <= created /\ i \in Nat
    BY <1>1 DEF Past, Moves
  <2> QED
    BY <1>1, <2>1 DEF Moves
<1>7. \A r \in 0 .. revision, s, t \in Sessions : \A i \in G[r][s] \cap queues'[t] : s = t
  <2> SUFFICES ASSUME NEW r \in 0 .. revision, NEW s \in Sessions, NEW t \in Sessions,
                      NEW i \in G[r][s] \cap queues'[t]
               PROVE  s = t
    OBVIOUS
  <2>1. i <= created /\ i \in Nat
    BY <1>1 DEF Past, Moves
  <2>2. i \in H[r][s] /\ i \in H[revision][t]
    BY <1>1, <2>1 DEF Moves
  <2> QED
    BY <1>1, <2>2 DEF Past
<1>8. \A a, c \in 0 .. revision', s, t \in Sessions : \A i \in G[a][s] \cap G[c][t] : s = t
  <2> SUFFICES ASSUME NEW a \in 0 .. revision', NEW c \in 0 .. revision',
                      NEW s \in Sessions, NEW t \in Sessions, NEW i \in G[a][s] \cap G[c][t]
               PROVE  s = t
    OBVIOUS
  <2>1. CASE a \in 0 .. revision /\ c \in 0 .. revision
    BY <1>1, <2>1 DEF Past
  <2>2. CASE a = revision' /\ c = revision'
    <3>1. i \in queues[s] \cap queues[t] => s = t
      BY <1>1 DEF Past
    <3> QED
      BY <1>1, <2>2, <3>1 DEF Moves
  <2> QED
    BY <1>1, <1>2, <1>7, <2>1, <2>2
<1>9. \A s \in Sessions, a, b, c \in 0 .. revision' :
        a <= b /\ b <= c => G[a][s] \cap G[c][s] \subseteq G[b][s]
  <2> SUFFICES ASSUME NEW s \in Sessions, NEW a \in 0 .. revision', NEW b \in 0 .. revision',
                      NEW c \in 0 .. revision', a <= b, b <= c, NEW i \in G[a][s] \cap G[c][s]
               PROVE  i \in G[b][s]
    OBVIOUS
  <2>1. CASE c \in 0 .. revision
    BY <1>1, <2>1 DEF Past
  <2>2. CASE b = revision'
    BY <1>1, <2>2
  <2>3. CASE b # revision' /\ c = revision'
    <3>1. a \in 0 .. revision /\ b \in 0 .. revision /\ b <= revision
      BY <1>1, <2>3
    <3>2. i \in queues[s]
      BY <1>1, <1>6, <2>3, <3>1
    <3>3. i \in H[a][s] \cap H[revision][s] /\ G[b] = H[b] /\ revision \in 0 .. revision
      BY <1>1, <3>1, <3>2
    <3> QED
      BY <3>1, <3>3 DEF Past
  <2> QED
    BY <1>2, <2>1, <2>2, <2>3
<1> QED
  BY <1>1, <1>5, <1>8, <1>9 DEF Past

\* What was told stays true.
LEMMA StillTold ==
  ASSUME NEW H, NEW G, Moves, Continues(H, G), NEW s, NEW items, NEW rev,
         Told(H, s, items, rev, revision, unguarded)
  PROVE  Told(G, s, items, rev, revision', unguarded')
BY DEF Told, Moves, Continues

-----------------------------------------------------------------------------
(* What steps do to the screen *)

\* Session s shows what a message that is not outdated told.
Updated(H, s) ==
  /\ Guard(s)' >= Guard(s)
  /\ Told(H, s, shown'[s], Guard(s)', revision, unguarded)

\* It shows the same, but for the draft; or less.
Kept(s) == Guard(s)' = Guard(s) /\ shown'[s] \ {Draft} = shown[s] \ {Draft}
Less(s) == Guard(s)' = Guard(s) /\ shown'[s] \ {Draft} \subseteq shown[s] \ {Draft}

Screen(H) ==
  /\ \A s \in Sessions : Less(s) \/ Updated(H, s)
  /\ \A i \in retired' \ retired :
       i # Draft /\ \E s \in Sessions : i \in shown[s] \ shown'[s] /\ Updated(H, s)

\* Messages are what they were, or tell what is queued.
Carries(G) ==
  /\ \A n \in DOMAIN stream' :
       \/ \E k \in DOMAIN stream : stream'[n] = stream[k]
       \/ Told(G, stream'[n].session, stream'[n].view.items, stream'[n].revision,
               revision', unguarded')
  /\ \A r \in replies' :
       \/ r \in replies
       \/ \A s \in Scope(r.call) :
            Told(G, s, r.views[s].items, r.revision, revision', unguarded')

LEMMA TruthfulContinues ==
  ASSUME NEW H, NEW G, Truthful(H), Moves, Continues(H, G), Carries(G)
  PROVE  Truthful(G)'
<1>1. ASSUME NEW n \in DOMAIN stream'
      PROVE  Told(G, stream'[n].session, stream'[n].view.items, stream'[n].revision,
                  revision', unguarded')
  <2>1. CASE \E k \in DOMAIN stream : stream'[n] = stream[k]
    <3>1. PICK k \in DOMAIN stream : stream'[n] = stream[k]
      BY <2>1
    <3>2. Told(H, stream[k].session, stream[k].view.items, stream[k].revision, revision, unguarded)
      BY DEF Truthful
    <3> QED
      BY <3>1, <3>2, StillTold
  <2> QED
    BY <2>1 DEF Carries
<1>2. ASSUME NEW r \in replies', NEW s \in Scope(r.call)
      PROVE  Told(G, s, r.views[s].items, r.revision, revision', unguarded')
  <2>1. CASE r \in replies
    <3>1. Told(H, s, r.views[s].items, r.revision, revision, unguarded)
      BY <2>1 DEF Truthful
    <3> QED
      BY <3>1, StillTold
  <2> QED
    BY <2>1 DEF Carries
<1>3. \A c : Scope(c)' = Scope(c)
  BY DEF Scope
<1> QED
  BY <1>1, <1>2, <1>3 DEF Truthful, Scope

LEMMA GuardType ==
  ASSUME TypeOK, TypeOK', NEW s \in Sessions
  PROVE  Guard(s) \in Nat /\ Guard(s)' \in Nat
BY ProjectionBounds DEF TypeOK, Guard, Revisions

\* What is shown was queued, and is not the draft.
LEMMA ShownWereQueued ==
  ASSUME TypeOK, NEW H, Past(H), Seen(H), NEW s \in Sessions, NEW i \in shown[s], i # Draft
  PROVE  i \in H[Guard(s)][s] /\ i <= created /\ i \in Items
<1>1. Guard(s) \in 0 .. revision /\ i \in H[Guard(s)][s]
  BY DEF Seen
<1> QED
  BY <1>1 DEF Past, TypeOK

LEMMA SeenContinues ==
  ASSUME TypeOK, TypeOK', NEW H, NEW G, Past(H), Seen(H), Departed, Moves, Continues(H, G), Screen(H)
  PROVE  Seen(G)' /\ Departed'
<1>1. /\ revision \in Nat /\ revision' \in {revision, revision + 1} /\ created \in Nat /\ created' \in Nat
      /\ created <= created' /\ G[revision'] = queues' /\ H[revision] = queues
      /\ \A r \in 0 .. revision : G[r] = H[r]
      /\ \A i \in Items : i \in Nat
      /\ unguarded \subseteq unguarded' /\ retired \subseteq Items /\ retired' \subseteq Items
      /\ unguarded' \subseteq Items
  BY ProjectionBounds DEF Moves, Continues, Past, Items, TypeOK
<1>2. \A s \in Sessions : Guard(s) \in 0 .. revision /\ Guard(s)' \in 0 .. revision
                          /\ Guard(s)' >= Guard(s)
  BY <1>1, GuardType DEF Seen, Screen, Less, Updated, Told
<1>3. \A s \in Sessions : Guard(s)' \in 0 .. revision' /\ shown'[s] \ {Draft} \subseteq G[Guard(s)'][s]
  <2> SUFFICES ASSUME NEW s \in Sessions
               PROVE  Guard(s)' \in 0 .. revision' /\ shown'[s] \ {Draft} \subseteq G[Guard(s)'][s]
    OBVIOUS
  <2>1. Guard(s)' \in 0 .. revision' /\ G[Guard(s)'] = H[Guard(s)']
    BY <1>1, <1>2
  <2>2. CASE Less(s)
    BY <2>1, <2>2 DEF Less, Seen
  <2>3. CASE Updated(H, s)
    BY <2>1, <2>3 DEF Updated, Told
  <2> QED
    BY <2>2, <2>3 DEF Screen
<1>4. \A i \in retired' \ retired : i <= created
  <2> SUFFICES ASSUME NEW i \in retired' \ retired PROVE i <= created
    OBVIOUS
  <2>1. PICK s \in Sessions : i # Draft /\ i \in shown[s]
    BY DEF Screen
  <2> QED
    BY <2>1, ShownWereQueued
<1>5. \A i \in unguarded' \cup retired' : i <= created'
  BY <1>1, <1>4 DEF Departed, Moves
<1>6. \A i \in retired' \ unguarded', s \in Sessions : \A r \in Guard(s)' .. revision : i \notin H[r][s]
  <2> SUFFICES ASSUME NEW i \in retired' \ unguarded', NEW s \in Sessions,
                      NEW r \in Guard(s)' .. revision, i \in H[r][s]
               PROVE  FALSE
    OBVIOUS
  <2>1. r \in Guard(s) .. revision /\ r \in 0 .. revision
    BY <1>1, <1>2
  <2>2. CASE i \in retired
    BY <1>1, <2>1, <2>2 DEF Seen
  <2>3. CASE i \notin retired
    <3>1. PICK t \in Sessions : i # Draft /\ i \in shown[t] \ shown'[t] /\ Updated(H, t)
      BY <2>3 DEF Screen
    <3>2. i \in H[Guard(t)][t] /\ Guard(t) \in 0 .. revision
      BY <1>2, <3>1, ShownWereQueued
    <3>3. s = t
      BY <2>1, <3>2 DEF Past
    <3>4. i \notin H[Guard(s)'][s]
      BY <1>1, <3>1, <3>3 DEF Updated, Told
    <3>5. Guard(s) <= Guard(s)' /\ Guard(s)' <= r
      BY <1>1, <1>2
    <3>6. H[Guard(s)][s] \cap H[r][s] \subseteq H[Guard(s)'][s]
      BY <1>2, <2>1, <3>5 DEF Past
    <3> QED
      BY <3>2, <3>3, <3>4, <3>6
  <2> QED
    BY <2>2, <2>3
<1>7. \A i \in retired' \ unguarded', s \in Sessions : \A r \in Guard(s)' .. revision' : i \notin G[r][s]
  <2> SUFFICES ASSUME NEW i \in retired' \ unguarded', NEW s \in Sessions,
                      NEW r \in Guard(s)' .. revision', i \in G[r][s]
               PROVE  FALSE
    OBVIOUS
  <2>1. CASE r <= revision
    BY <1>1, <1>2, <1>6, <2>1
  <2>2. CASE r = revision'
    <3>1. i <= created /\ i \in Nat
      BY <1>1, <1>4 DEF Departed
    <3>2. i \in queues[s]
      BY <1>1, <2>2, <3>1 DEF Moves
    <3>3. revision \in Guard(s)' .. revision
      BY <1>1, <1>2
    <3> QED
      BY <1>1, <1>6, <3>2, <3>3
  <2> QED
    BY <1>1, <1>2, <2>1, <2>2
<1>8. \A s \in Sessions : queues'[s] \cap unguarded' = {}
  <2> SUFFICES ASSUME NEW s \in Sessions, NEW i \in queues'[s], i \in unguarded'
               PROVE  FALSE
    OBVIOUS
  <2>1. i \in unguarded /\ i \in Nat
    BY <1>1 DEF Moves
  <2>2. i <= created
    BY <2>1 DEF Departed
  <2>3. i \in queues[s]
    BY <1>1, <2>1, <2>2 DEF Moves
  <2> QED
    BY <2>1, <2>3 DEF Departed
<1> QED
  BY <1>3, <1>5, <1>7, <1>8 DEF Seen, Departed

LEMMA ChronicleContinues ==
  ASSUME TypeOK, TypeOK', NEW H, NEW G, Chronicle(H), Moves, Continues(H, G), Screen(H), Carries(G)
  PROVE  Chronicle(G)'
BY PastContinues, TruthfulContinues, SeenContinues DEF Chronicle

-----------------------------------------------------------------------------
(* Convergence *)

\* From revision r to the last nothing left or entered the queue of s that is guarded.
Current(H, s, r, last, departed) ==
  \A q \in r .. last : H[q][s] \ departed = H[last][s] \ departed

Rereads == {"remove", "take", "clear", "refresh"}

\* Everything is to be read again.
ToRead == Hydration \in calls \/ resyncRequested

\* So is session s, whose directory the client of such a read knows.
Reads(call, s) == call = Hydration \/ call = ReadAgain(s)
Awaited(s) == ToRead \/ ReadAgain(s) \in calls

\* What is shown of s lacks nothing of consequence, or a message that does not
\* is on its way.
Covered(H, s) ==
  \/ Current(H, s, Guard(s), revision, unguarded)
  \/ \E n \in DOMAIN stream : /\ stream[n].session = s /\ stream[n].named
                              /\ Current(H, s, stream[n].revision, revision, unguarded)
  \/ Awaited(s)
  \/ \E r \in replies : /\ Reads(r.call, s)
                        /\ Current(H, s, r.revision, revision, unguarded)

\* The client has asked for s again since it hid something of it, or is being told.
Rereading(call, s) == call = Hydration \/ (call.op \in Rereads /\ call.session = s)

Asked(s) ==
  \/ ToRead
  \/ \E call \in calls : Rereading(call, s)
  \/ \E r \in replies : Rereading(r.call, s) /\ r.revision >= Guard(s)
  \/ \E n \in DOMAIN stream : /\ stream[n].session = s /\ stream[n].named
                              /\ stream[n].revision >= Guard(s)

Revealing(H, s) == queues[s] \cap H[Guard(s)][s] \subseteq shown[s] \/ Asked(s)

Converging(H) == connected => \A s \in Sessions \ unread : Covered(H, s) /\ Revealing(H, s)

LEMMA ReadsReread ==
  ASSUME NEW s
  PROVE  /\ \A call : Reads(call, s) => Rereading(call, s)
         /\ Awaited(s) => Asked(s)
BY DEF Reads, Rereading, Rereads, ReadAgain, Awaited, Asked

\* A response without a directory tells of a session with no queue.
NamedReplies ==
  \A r \in replies : ~r.named => /\ r.call.op \notin {"add", "refresh", "hydrate"}
                                 /\ r.views[r.call.session].items = {}

\* A promised read follows one that is under way, a draft its call.
Promised ==
  /\ resyncRequested => Hydration \in Underway
  /\ \A s \in Sessions : Draft \in shown[s] => [op |-> "add", session |-> s] \in Underway

LEMMA CurrentLater ==
  ASSUME NEW H, NEW s, NEW r \in Nat, NEW last \in Nat, NEW departed,
         Current(H, s, r, last, departed), NEW later \in Nat, r <= later
  PROVE  Current(H, s, later, last, departed)
BY DEF Current

\* What is guarded in the queue of s stays.
Carried(s) == queues[s] \ unguarded' = queues'[s] \ unguarded'

LEMMA CurrentContinues ==
  ASSUME NEW H, NEW G, Past(H), Moves, Continues(H, G), NEW s \in Sessions, Carried(s),
         NEW r \in 0 .. revision, Current(H, s, r, revision, unguarded)
  PROVE  Current(G, s, r, revision', unguarded')
<1>1. /\ revision \in Nat /\ revision' \in {revision, revision + 1} /\ unguarded \subseteq unguarded'
      /\ G[revision'] = queues' /\ H[revision] = queues
      /\ \A q \in 0 .. revision : G[q] = H[q]
  BY DEF Moves, Continues, Past
<1> SUFFICES ASSUME NEW q \in r .. revision'
             PROVE  G[q][s] \ unguarded' = G[revision'][s] \ unguarded'
  BY DEF Current
<1>2. CASE q <= revision
  <2>1. q \in r .. revision /\ q \in 0 .. revision
    BY <1>1, <1>2
  <2>2. H[q][s] \ unguarded = queues[s] \ unguarded
    BY <1>1, <2>1 DEF Current
  <2>3. H[q][s] \ unguarded' = queues[s] \ unguarded'
    BY <1>1, <2>2
  <2> QED
    BY <1>1, <2>1, <2>3 DEF Carried
<1> QED
  BY <1>1, <1>2

\* Of what covers s, the step delivers some and keeps the rest.
Delivers(s) ==
  /\ Guard(s)' \in Guard(s) .. revision
  /\ \A n \in DOMAIN stream : stream[n].session = s /\ stream[n].named =>
       \/ \E k \in DOMAIN stream' : stream'[k] = stream[n]
       \/ Guard(s)' >= stream[n].revision
  /\ Awaited(s) => Awaited(s)' \/ \E r \in replies' : Reads(r.call, s) /\ r.revision = revision'
  /\ \A r \in replies : Reads(r.call, s) => r \in replies' \/ Guard(s)' >= r.revision

LEMMA CoveredContinues ==
  ASSUME TypeOK, NEW H, NEW G, Chronicle(H), Moves, Continues(H, G), NEW s \in Sessions,
         Carried(s), Delivers(s), Covered(H, s)
  PROVE  Covered(G, s)'
<1>1. /\ Past(H) /\ revision \in Nat /\ Guard(s) \in 0 .. revision
      /\ Guard(s)' \in Guard(s) .. revision /\ Guard(s)' \in 0 .. revision
      /\ \A n \in DOMAIN stream : stream[n].revision \in 0 .. revision
      /\ \A r \in replies : Reads(r.call, s) => r.revision \in 0 .. revision
  <2>1. \A r \in replies : Reads(r.call, s) => s \in Scope(r.call)
    BY DEF Reads, Scope, Hydration, ReadAgain
  <2>2. \A r \in replies : Reads(r.call, s) => r.revision \in 0 .. revision
    BY <2>1 DEF Chronicle, Truthful, Told
  <2>3. \A n \in DOMAIN stream : stream[n].revision \in 0 .. revision
    BY DEF Chronicle, Truthful, Told
  <2> QED
    BY <2>2, <2>3 DEF Chronicle, Moves, Seen, Delivers
<1>2. ASSUME NEW r \in 0 .. revision, Current(H, s, r, revision, unguarded)
      PROVE  /\ Current(G, s, r, revision', unguarded')
             /\ Guard(s)' >= r => Covered(G, s)'
  <2>1. Current(G, s, r, revision', unguarded')
    BY <1>1, <1>2, CurrentContinues
  <2>2. revision' \in Nat
    BY <1>1 DEF Moves
  <2>3. ASSUME Guard(s)' >= r PROVE Current(G, s, Guard(s)', revision', unguarded')
    BY <1>1, <2>1, <2>2, <2>3, CurrentLater
  <2> QED
    BY <2>1, <2>3 DEF Covered
<1>3. CASE Current(H, s, Guard(s), revision, unguarded)
  BY <1>1, <1>2, <1>3
<1>4. CASE \E n \in DOMAIN stream : /\ stream[n].session = s /\ stream[n].named
                                    /\ Current(H, s, stream[n].revision, revision, unguarded)
  <2>1. PICK n \in DOMAIN stream : /\ stream[n].session = s /\ stream[n].named
                                   /\ Current(H, s, stream[n].revision, revision, unguarded)
    BY <1>4
  <2>2. CASE \E k \in DOMAIN stream' : stream'[k] = stream[n]
    BY <1>1, <1>2, <2>1, <2>2 DEF Covered
  <2> QED
    BY <1>1, <1>2, <2>1, <2>2 DEF Delivers
<1>5. CASE Awaited(s)
  <2>1. CASE \E r \in replies' : Reads(r.call, s) /\ r.revision = revision'
    <3>1. Current(G, s, revision', revision', unguarded')
      BY <1>1 DEF Current, Moves
    <3> QED
      BY <2>1, <3>1 DEF Covered
  <2> QED
    BY <1>5, <2>1 DEF Delivers, Covered
<1>6. CASE \E r \in replies : Reads(r.call, s) /\ Current(H, s, r.revision, revision, unguarded)
  <2>1. PICK r \in replies : Reads(r.call, s) /\ Current(H, s, r.revision, revision, unguarded)
    BY <1>6
  <2>2. CASE r \in replies'
    BY <1>1, <1>2, <2>1, <2>2 DEF Covered
  <2> QED
    BY <1>1, <1>2, <2>1, <2>2 DEF Delivers, Covered
<1> QED
  BY <1>3, <1>4, <1>5, <1>6 DEF Covered

\* What is said of s now covers it.
Anew(s) ==
  \E n \in DOMAIN stream' : /\ stream'[n].session = s /\ stream'[n].named
                            /\ stream'[n].revision >= Guard(s)'
                            /\ \/ stream'[n].revision = revision'
                               \/ stream'[n].revision = revision /\ Carried(s)

LEMMA CoveredAnew ==
  ASSUME NEW H, NEW G, Past(H), Moves, Continues(H, G), NEW s \in Sessions, Anew(s)
  PROVE  Covered(G, s)' /\ Asked(s)'
<1>1. PICK n \in DOMAIN stream' : /\ stream'[n].session = s /\ stream'[n].named
                                  /\ stream'[n].revision >= Guard(s)'
                                  /\ \/ stream'[n].revision = revision'
                                     \/ stream'[n].revision = revision /\ Carried(s)
  BY DEF Anew
<1>2. Current(G, s, revision', revision', unguarded')
  BY DEF Current, Moves
<1>3. Carried(s) => Current(G, s, revision, revision', unguarded')
  <2>1. revision \in 0 .. revision /\ Current(H, s, revision, revision, unguarded)
    BY DEF Current, Moves
  <2> QED
    BY <2>1, CurrentContinues
<1> QED
  BY <1>1, <1>2, <1>3 DEF Covered, Asked

\* What is hidden without being updated is asked for, or has gone.
Reveals(H, s) ==
  \/ Updated(H, s)
  \/ Asked(s)'
  \/ Kept(s) /\ (~Asked(s) \/ queues[s] \cap H[Guard(s)][s] = {})

LEMMA RevealingContinues ==
  ASSUME TypeOK, TypeOK', NEW H, NEW G, Chronicle(H), Chronicle(G)', Moves, Continues(H, G),
         NEW s \in Sessions, Reveals(H, s), Revealing(H, s)
  PROVE  Revealing(G, s)'
<1>1. /\ revision \in Nat /\ created \in Nat /\ Guard(s) \in 0 .. revision
      /\ \A r \in 0 .. revision : G[r] = H[r]
      /\ unguarded \subseteq unguarded' /\ queues'[s] \cap unguarded' = {}
      /\ \A i \in queues'[s] : i \in Items /\ i \in Nat /\ i # Draft
  BY ProjectionBounds DEF Moves, Continues, Chronicle, Seen, Departed, TypeOK, Items, Draft
<1>2. CASE Updated(H, s)
  <2>1. queues'[s] \cap G[Guard(s)'][s] \subseteq shown'[s]
    BY <1>1, <1>2 DEF Updated, Told
  <2> QED
    BY <2>1 DEF Revealing
<1>3. CASE Kept(s) /\ (~Asked(s) \/ queues[s] \cap H[Guard(s)][s] = {})
  <2>1. queues[s] \cap H[Guard(s)][s] \subseteq shown[s]
    BY <1>3 DEF Revealing
  <2>2. \A i \in queues'[s] \cap H[Guard(s)][s] : i <= created
    BY <1>1 DEF Chronicle, Past
  <2>3. queues'[s] \cap G[Guard(s)'][s] \subseteq shown'[s]
    BY <1>1, <1>3, <2>1, <2>2 DEF Kept, Moves
  <2> QED
    BY <2>3 DEF Revealing
<1> QED
  BY <1>2, <1>3 DEF Reveals, Revealing

-----------------------------------------------------------------------------
(* What each step does to all of it *)

\* What a step has to show of s for the client to converge still.
Converges(H, s) ==
  \/ Awaited(s)' \/ Anew(s)
  \/ connected /\ s \notin unread /\ Reveals(H, s) /\ Carried(s) /\ Delivers(s)

LEMMA StepContinues ==
  ASSUME TypeOK, TypeOK', NEW H, Chronicle(H), Converging(H), Moves, Screen(H),
         \A G : Continues(H, G) => Carries(G),
         connected' => \A s \in Sessions \ unread' : Converges(H, s)
  PROVE  \E G : Chronicle(G)' /\ Converging(G)'
<1>1. PICK G : Continues(H, G)
  BY Continuation DEF Chronicle
<1>2. Chronicle(G)'
  BY <1>1, ChronicleContinues
<1>3. Converging(G)'
  <2> SUFFICES ASSUME connected', NEW s \in Sessions, s \notin unread'
               PROVE  Covered(G, s)' /\ Revealing(G, s)'
    BY DEF Converging
  <2>1. CASE Awaited(s)'
    BY <2>1 DEF Covered, Revealing, Asked, Awaited, Rereading, Rereads, ReadAgain
  <2>2. CASE Anew(s)
    BY <1>1, <2>2, CoveredAnew DEF Revealing, Chronicle
  <2>3. CASE connected /\ s \notin unread /\ Reveals(H, s) /\ Carried(s) /\ Delivers(s)
    <3>1. Covered(H, s) /\ Revealing(H, s)
      BY <2>3 DEF Converging
    <3>2. Revealing(G, s)'
      BY <1>1, <1>2, <2>3, <3>1, RevealingContinues
    <3>3. Covered(G, s)'
      BY <1>1, <2>3, <3>1, CoveredContinues
    <3> QED
      BY <3>2, <3>3
  <2> QED
    BY <2>1, <2>2, <2>3 DEF Converges
<1> QED
  BY <1>2, <1>3

LEMMA Unseen ==
  ASSUME UNCHANGED client
  PROVE  \A H : Screen(H) /\ \A s : Kept(s) /\ Guard(s)' = Guard(s)
BY DEF client, Screen, Less, Kept, Guard

\* What the server says is appended to what it has said.
LEMMA StreamAppended ==
  ASSUME TypeOK, NEW s, NEW rev, NEW named, Appends(s, rev, named)
  PROVE  /\ \A n \in DOMAIN stream : n \in DOMAIN stream' /\ stream'[n] = stream[n]
         /\ \A n \in DOMAIN stream' : n \in DOMAIN stream \/ stream'[n] = Message(s, rev, named)
         /\ connected => \E n \in DOMAIN stream' : stream'[n] = Message(s, rev, named)
         /\ \A t \in unread : t \in unread' \/ (connected /\ named /\ t = s)
<1>1. stream \in Seq(Broadcasts) /\ Len(stream) \in Nat /\ DOMAIN stream = 1 .. Len(stream)
  BY TypeParts
<1>2. CASE connected
  <2> DEFINE m == Message(s, rev, named)
  <2>1. stream' = Append(stream, m)
    BY <1>2 DEF Appends
  <2>2. Len(stream') = Len(stream) + 1 /\ DOMAIN stream' = 1 .. Len(stream) + 1
        /\ stream'[Len(stream) + 1] = m /\ \A n \in 1 .. Len(stream) : stream'[n] = stream[n]
    <3> HIDE DEF m
    <3> QED
      BY <1>1, <2>1
  <2>3. \A t \in unread : t \in unread' \/ (connected /\ named /\ t = s)
    BY <1>2 DEF Appends
  <2> QED
    BY <1>1, <2>2, <2>3
<1> QED
  BY <1>2 DEF Appends

\* The server edits, claims, answers.
Says ==
  \/ /\ Still
     /\ \/ UNCHANGED <<stream, unread>>
        \/ \E s \in Sessions, named \in BOOLEAN : Appends(s, revision, named)
  \/ \E s \in Sessions : EditEffect(s)

LEMMA AnswerAdds ==
  ASSUME NEW call, Answer(call)
  PROVE  \E r : /\ replies' = replies \cup {r} /\ r.call = call /\ r.revision = revision'
                /\ \A s \in Scope(call) : r.views[s].items = queues'[s]
                /\ r.named \/ (call.op \notin {"refresh", "hydrate"} /\ ~Named(call.session)')
<1> DEFINE after == [s \in Scope(call) |->
                  [items |-> queues'[s],
                   sendingId |-> IF call.op \in {"refresh", "hydrate"} /\ queues'[s] = {}
                                 THEN NoItem ELSE sending'[s]]]
           reply == [call |-> call, views |-> after, revision |-> revision',
                     named |-> call.op \in {"refresh", "hydrate"} \/ Named(call.session)']
<1>1. replies' = replies \cup {reply}
  BY DEF Answer
<1>2. \A s \in Scope(call) : reply.views[s].items = queues'[s]
  OBVIOUS
<1>3. /\ reply.call = call /\ reply.revision = revision'
      /\ reply.named = (call.op \in {"refresh", "hydrate"} \/ Named(call.session)')
  OBVIOUS
<1> HIDE DEF reply
<1> QED
  BY <1>1, <1>2, <1>3

Serves ==
  /\ UNCHANGED <<connected, client, resyncRequested>>
  /\ UNCHANGED <<calls, replies>> \/ \E call \in calls : calls' = calls \ {call} /\ Answer(call)
  /\ Says

LEMMA ServerServes ==
  ASSUME TypeOK, ServerSteps
  PROVE  Serves
<1>1. UNCHANGED <<connected, calls, replies, client, resyncRequested>>
  BY DEF ServerSteps
<1>2. PICK s \in Sessions :
        \/ /\ Enqueue(s) \/ SendSucceeds(s) \/ \E i \in Items : Drop(s, i) \/ Claims(s, i)
           /\ UNCHANGED <<unguarded, faults>>
        \/ SendFails(s) /\ UNCHANGED unguarded
        \/ DropDeletedSession(s) \/ Evict(s)
  BY DEF ServerSteps
<1>3. CASE Edits(s) /\ (unguarded' = unguarded \/ DropDeletedSession(s) \/ Evict(s))
  BY <1>1, <1>3, EditEffects DEF Serves, Says
<1>4. CASE (SendFails(s) \/ \E i \in Items : Claims(s, i)) /\ UNCHANGED unguarded
  <2>1. UNCHANGED <<queues, revision, created>>
    BY <1>4 DEF SendFails, Claims, Server!Claim, Server!Release
  <2>2. \E named \in BOOLEAN : Send(Message(s, revision, named))
    <3>1. Named(s) \in BOOLEAN
      BY DEF Named
    <3> QED
      BY <1>4, <3>1 DEF SendFails, Claims
  <2>3. \E named \in BOOLEAN : Appends(s, revision, named)
    BY <2>2, SendAppends
  <2> QED
    BY <1>1, <1>4, <2>1, <2>3 DEF Serves, Says, Still
<1> QED
  BY <1>2, <1>3, <1>4 DEF Edits

LEMMA HandleServes ==
  ASSUME TypeOK, NEW call \in calls, Handle(call)
  PROVE  Serves
<1>1. /\ UNCHANGED <<connected, client, resyncRequested, unguarded>>
      /\ calls' = calls \ {call} /\ Answer(call) /\ call \in Call
  BY TypeParts DEF Handle
<1>2. CASE UNCHANGED <<server, stream, unread>>
  BY <1>1, <1>2 DEF Serves, Says, Still, server
<1>3. CASE ~UNCHANGED <<server, stream, unread>>
  <2>1. call.session \in Sessions /\ Edits(call.session) /\ unguarded' = unguarded
    BY <1>1, <1>3, CallKinds DEF Handle, Edits
  <2> QED
    BY <1>1, <2>1, EditEffects DEF Serves, Says
<1> QED
  BY <1>2, <1>3

LEMMA ServesCarries ==
  ASSUME TypeOK, TypeOK', NEW H, Chronicle(H), Moves, Serves, NEW G, Continues(H, G)
  PROVE  Carries(G)
<1>1. /\ revision \in Nat /\ revision' \in Nat /\ revision <= revision'
      /\ G[revision'] = queues' /\ G[revision] = queues
      /\ \A s \in Sessions : queues'[s] \subseteq Items
  BY DEF Moves, Continues, Chronicle, Past
<1>2. ASSUME NEW s \in Sessions, NEW rev, NEW named, Appends(s, rev, named),
             \/ rev = revision'
             \/ rev = revision /\ queues'[s] = {} /\ queues[s] \subseteq unguarded'
      PROVE  \A n \in DOMAIN stream' :
               \/ \E k \in DOMAIN stream : stream'[n] = stream[k]
               \/ Told(G, stream'[n].session, stream'[n].view.items, stream'[n].revision,
                       revision', unguarded')
  <2> DEFINE m == Message(s, rev, named)
  <2>1. m.session = s /\ m.view.items = queues'[s] /\ m.revision = rev
    BY DEF Message
  <2>2. Told(G, m.session, m.view.items, m.revision, revision', unguarded')
    BY <1>1, <1>2, <2>1 DEF Told
  <2> HIDE DEF m
  <2>3. \A n \in DOMAIN stream' : (n \in DOMAIN stream /\ stream'[n] = stream[n]) \/ stream'[n] = m
    BY <1>2, StreamAppended DEF m
  <2> QED
    BY <2>2, <2>3
<1>3. \A n \in DOMAIN stream' :
        \/ \E k \in DOMAIN stream : stream'[n] = stream[k]
        \/ Told(G, stream'[n].session, stream'[n].view.items, stream'[n].revision,
                revision', unguarded')
  <2>1. CASE UNCHANGED stream
    BY <2>1
  <2>2. CASE Still /\ \E s \in Sessions, named \in BOOLEAN : Appends(s, revision, named)
    <3>1. revision = revision'
      BY <2>2 DEF Still
    <3> QED
      BY <1>2, <2>2, <3>1
  <2>3. ASSUME NEW s \in Sessions, EditEffect(s)
        PROVE  \A n \in DOMAIN stream' :
                 \/ \E k \in DOMAIN stream : stream'[n] = stream[k]
                 \/ Told(G, stream'[n].session, stream'[n].view.items, stream'[n].revision,
                         revision', unguarded')
    <3>1. PICK rev \in {revision, revision'}, named \in BOOLEAN : Announces(s, rev, named)
      BY <2>3 DEF EditEffect
    <3> QED
      BY <1>2, <3>1 DEF Announces
  <2> QED
    BY <2>1, <2>2, <2>3 DEF Serves, Says
<1>4. \A r \in replies' :
        \/ r \in replies
        \/ \A s \in Scope(r.call) : Told(G, s, r.views[s].items, r.revision, revision', unguarded')
  <2>1. CASE UNCHANGED <<calls, replies>>
    BY <2>1
  <2>2. ASSUME NEW call \in calls, Answer(call), NEW r \in replies' \ replies, NEW s \in Scope(r.call)
        PROVE  Told(G, s, r.views[s].items, r.revision, revision', unguarded')
    <3>0. call \in Call
      BY TypeParts
    <3>1. Scope(call) \subseteq Sessions
      BY <3>0, CallKinds
    <3>2. r.call = call /\ r.views[s].items = queues'[s] /\ r.revision = revision'
      BY <2>2, AnswerAdds
    <3> QED
      BY <1>1, <2>2, <3>1, <3>2 DEF Told
  <2> QED
    BY <2>1, <2>2 DEF Serves
<1> QED
  BY <1>3, <1>4 DEF Carries

LEMMA ServesConverges ==
  ASSUME TypeOK, TypeOK', NEW H, Chronicle(H), Moves, Serves, connected,
         NEW s \in Sessions, s \notin unread'
  PROVE  Converges(H, s)
<1>1. /\ revision \in Nat /\ revision' \in Nat /\ revision <= revision'
      /\ Guard(s) \in 0 .. revision /\ Guard(s)' = Guard(s) /\ Kept(s)
      /\ resyncRequested' = resyncRequested
  BY Unseen DEF Moves, Chronicle, Seen, Serves
<1>2. /\ replies \subseteq replies'
      /\ \A call \in calls : \/ call \in calls'
                             \/ \E r \in replies' : r.call = call /\ r.revision = revision'
  <2>1. CASE UNCHANGED <<calls, replies>>
    BY <2>1
  <2>2. ASSUME NEW call \in calls, calls' = calls \ {call}, Answer(call)
        PROVE  replies \subseteq replies' /\ \E r \in replies' : r.call = call /\ r.revision = revision'
    <3>1. PICK r : replies' = replies \cup {r} /\ r.call = call /\ r.revision = revision'
      BY <2>2, AnswerAdds
    <3> QED
      BY <3>1
  <2> QED
    BY <2>1, <2>2 DEF Serves
<1>3. ASSUME \A n \in DOMAIN stream : n \in DOMAIN stream' /\ stream'[n] = stream[n]
      PROVE  Delivers(s) /\ Reveals(H, s)
  <2>1. Asked(s) => Asked(s)'
    BY <1>1, <1>2, <1>3 DEF Asked, ToRead, Rereading
  <2>2. Awaited(s) => Awaited(s)' \/ \E r \in replies' : Reads(r.call, s) /\ r.revision = revision'
    BY <1>1, <1>2 DEF Awaited, ToRead, Reads
  <2> QED
    BY <1>1, <1>2, <1>3, <2>1, <2>2 DEF Delivers, Reveals
<1>4. CASE UNCHANGED <<stream, unread>> /\ Still
  BY <1>3, <1>4 DEF Converges, Carried, Still
<1>5. ASSUME NEW t \in Sessions, NEW rev, NEW named \in BOOLEAN, Appends(t, rev, named),
             \/ rev = revision'
             \/ rev = revision /\ Carried(s),
             Carried(s) \/ (named /\ s = t)
      PROVE  Converges(H, s)
  <2>1. CASE named /\ s = t
    <3>1. PICK n \in DOMAIN stream' : stream'[n] = Message(t, rev, named)
      BY <1>5, StreamAppended
    <3>2. /\ stream'[n].session = s /\ stream'[n].named /\ stream'[n].revision = rev
      BY <2>1, <3>1 DEF Message
    <3>3. rev >= Guard(s)'
      BY <1>1, <1>5
    <3> QED
      BY <1>5, <3>2, <3>3 DEF Converges, Anew
  <2>2. CASE ~(named /\ s = t)
    <3>1. s \notin unread /\ \A n \in DOMAIN stream : n \in DOMAIN stream' /\ stream'[n] = stream[n]
      BY <1>5, <2>2, StreamAppended
    <3> QED
      BY <1>3, <1>5, <2>2, <3>1 DEF Converges
  <2> QED
    BY <2>1, <2>2
<1>6. ASSUME NEW t \in Sessions, NEW named \in BOOLEAN, Still, Appends(t, revision, named)
      PROVE  Converges(H, s)
  BY <1>5, <1>6 DEF Carried, Still
<1>7. ASSUME NEW t \in Sessions, EditEffect(t)
      PROVE  Converges(H, s)
  <2>1. PICK rev \in {revision, revision'}, named \in BOOLEAN : Announces(t, rev, named)
    BY <1>7 DEF EditEffect
  <2>2. s # t => Carried(s)
    BY <1>7 DEF EditEffect, Carried
  <2>3. s = t => Carried(s) \/ (named /\ rev = revision')
    BY <2>1 DEF Announces, Carried
  <2> QED
    BY <1>5, <2>1, <2>2, <2>3 DEF Announces
<1> QED
  BY <1>4, <1>6, <1>7 DEF Serves, Says

LEMMA ServesContinues ==
  ASSUME TypeOK, TypeOK', NEW H, Chronicle(H), Converging(H), Serves
  PROVE  \E G : Chronicle(G)' /\ Converging(G)'
<1>1. Moves
  BY StillMoves, EditMoves DEF Serves, Says, Chronicle
<1>2. Screen(H)
  BY Unseen DEF Serves
<1>3. \A G : Continues(H, G) => Carries(G)
  BY <1>1, ServesCarries
<1>4. connected' => \A s \in Sessions \ unread' : Converges(H, s)
  BY <1>1, ServesConverges DEF Serves
<1> QED
  BY <1>1, <1>2, <1>3, <1>4, StepContinues

-----------------------------------------------------------------------------
(* What the client does with a message *)

\* A message about s of revision rev is taken, or was overtaken.
Takes(H, s, rev) ==
  \/ Updated(H, s) /\ Guard(s)' >= rev
  \/ Kept(s) /\ Guard(s) > rev

LEMMA ShowScreen ==
  ASSUME TypeOK, TypeOK', NEW H, NEW s \in Sessions, NEW view \in View, NEW rev \in Revisions,
         ~Outdated(s, rev), Show(s, view, rev), Told(H, s, view.items, rev, revision, unguarded)
  PROVE  /\ Screen(H) /\ Updated(H, s) /\ Guard(s)' = rev
         /\ \A t \in Sessions \ {s} : Kept(t)
<1>1. /\ shown' = [shown EXCEPT ![s] = view.items] /\ applied' = [applied EXCEPT ![s] = rev]
      /\ retired' = retired \cup ((shown[s] \ view.items) \ {Draft})
      /\ snapshotRevision' = snapshotRevision
      /\ applied[s] <= rev /\ snapshotRevision <= rev
  BY ProjectionBounds DEF Show, Outdated, TypeOK, Revisions
<1>2. /\ shown'[s] = view.items /\ applied'[s] = rev
      /\ \A t \in Sessions \ {s} : shown'[t] = shown[t] /\ applied'[t] = applied[t]
  BY <1>1 DEF TypeOK
<1>3. rev \in Nat /\ applied[s] \in Nat /\ snapshotRevision \in Nat
  BY ProjectionBounds DEF TypeOK, Revisions
<1>4. Guard(s)' = rev /\ Guard(s)' >= Guard(s)
  BY <1>1, <1>2, <1>3 DEF Guard
<1>5. Updated(H, s)
  BY <1>2, <1>4 DEF Updated
<1>6. \A t \in Sessions \ {s} : Kept(t)
  BY <1>1, <1>2 DEF Kept, Guard
<1>7. \A i \in retired' \ retired : i # Draft /\ i \in shown[s] \ shown'[s]
  BY <1>1, <1>2
<1> QED
  BY <1>4, <1>5, <1>6, <1>7 DEF Screen, Kept, Less

LEMMA TakesSession ==
  ASSUME TypeOK, TypeOK', NEW H, NEW s \in Sessions, NEW view \in View, NEW rev \in Revisions,
         ApplyServerSession(s, view, rev), Told(H, s, view.items, rev, revision, unguarded)
  PROVE  /\ Screen(H) /\ Takes(H, s, rev)
         /\ \A t \in Sessions \ {s} : Kept(t)
<1>1. CASE Outdated(s, rev)
  <2>1. Guard(s) > rev
    BY <1>1, ProjectionBounds DEF Outdated, Guard, TypeOK, Revisions
  <2> QED
    BY <1>1, <2>1, Unseen DEF ApplyServerSession, Takes
<1>2. CASE ~Outdated(s, rev)
  <2>1. rev \in Nat
    BY ProjectionBounds DEF Revisions
  <2> QED
    BY <1>2, <2>1, ShowScreen DEF ApplyServerSession, Takes
<1> QED
  BY <1>1, <1>2

LEMMA TakesUnnamed ==
  ASSUME TypeOK, TypeOK', NEW H, NEW s \in Sessions, NEW view \in View, NEW rev \in Revisions,
         ApplyUnnamedSession(s, view, rev), Told(H, s, view.items, rev, revision, unguarded)
  PROVE  /\ Screen(H)
         /\ Kept(s) \/ (Updated(H, s) /\ Takes(H, s, rev))
         /\ \A t \in Sessions \ {s} : Kept(t)
<1>1. CASE UNCHANGED client
  BY <1>1, Unseen
<1>2. CASE ~UNCHANGED client
  <2> DEFINE none == [items |-> {}, sendingId |-> NoItem]
  <2>1. view.items = {} /\ ~Outdated(s, rev) /\ Show(s, none, rev)
    BY <1>2 DEF ApplyUnnamedSession
  <2>2. none \in View /\ none.items = view.items
    BY <2>1 DEF View
  <2>3. Told(H, s, none.items, rev, revision, unguarded) /\ rev \in Nat
    BY <2>2, ProjectionBounds DEF Revisions
  <2> HIDE DEF none
  <2>4. /\ Screen(H) /\ Updated(H, s) /\ Guard(s)' = rev
        /\ \A t \in Sessions \ {s} : Kept(t)
    BY <2>1, <2>2, <2>3, ShowScreen
  <2>5. Takes(H, s, rev)
    BY <2>3, <2>4 DEF Takes
  <2> QED
    BY <2>4, <2>5
<1> QED
  BY <1>1, <1>2

LEMMA TakesSnapshot ==
  ASSUME TypeOK, TypeOK', NEW H, NEW views \in [Sessions -> View], NEW rev \in Revisions,
         ApplyOwnerSnapshot(views, rev),
         \A s \in Sessions : Told(H, s, views[s].items, rev, revision, unguarded)
  PROVE  Screen(H) /\ \A s \in Sessions : Takes(H, s, rev)
<1>1. rev \in Nat /\ snapshotRevision \in Nat /\ \A s \in Sessions : applied[s] \in Nat
  BY ProjectionBounds DEF TypeOK, Revisions
<1>2. CASE snapshotRevision > rev
  <2>1. \A s \in Sessions : Guard(s) > rev
    BY <1>1, <1>2 DEF Guard
  <2> QED
    BY <1>2, <2>1, Unseen DEF ApplyOwnerSnapshot, Takes
<1>3. CASE snapshotRevision <= rev
  <2>1. Taken(views, rev)
    <3>1. retired' = retired \cup ((UNION {shown[s] \ views[s].items : s \in Replaced(rev)}) \ {Draft})
      BY <1>1, <1>3 DEF ApplyOwnerSnapshot, Replaced
    <3>2. \A i \in retired' :
             i \in retired \/ (i # Draft /\ \E s \in Replaced(rev) : i \in shown[s] \ views[s].items)
      BY <3>1
    <3> QED
      BY <1>1, <1>3, <3>2 DEF ApplyOwnerSnapshot, Taken, Replaced
  <2>2. ASSUME NEW s \in Sessions, s \in Replaced(rev)
        PROVE  Updated(H, s) /\ Guard(s)' = rev /\ shown'[s] = views[s].items
    <3>1. applied[s] <= rev
      BY <1>1, <2>2 DEF Replaced, Keeps
    <3>2. shown'[s] = views[s].items /\ applied'[s] \in {rev, applied[s]} /\ snapshotRevision' = rev
      BY <2>1, <2>2 DEF Taken
    <3>3. Guard(s)' = rev /\ Guard(s) <= rev
      BY <1>1, <1>3, <3>1, <3>2 DEF Guard
    <3> QED
      BY <1>1, <3>2, <3>3 DEF Updated
  <2>3. ASSUME NEW s \in Sessions, s \notin Replaced(rev)
        PROVE  Kept(s) /\ Guard(s) > rev
    <3>1. applied[s] > rev
      BY <2>3 DEF Replaced, Keeps
    <3>2. shown'[s] = shown[s] /\ applied'[s] = applied[s] /\ snapshotRevision' = rev
      BY <2>1, <2>3 DEF Taken
    <3> QED
      BY <1>1, <1>3, <3>1, <3>2 DEF Kept, Guard
  <2>4. \A s \in Sessions : Takes(H, s, rev)
    BY <1>1, <2>2, <2>3 DEF Takes
  <2>5. \A i \in retired' \ retired :
          i # Draft /\ \E s \in Sessions : i \in shown[s] \ shown'[s] /\ Updated(H, s)
    BY <2>1, <2>2 DEF Taken, Replaced
  <2> QED
    BY <2>4, <2>5 DEF Screen, Takes, Kept, Less
<1> QED
  BY <1>1, <1>2, <1>3

-----------------------------------------------------------------------------
(* The steps of the client *)

\* The client, or the channels to it: nothing is edited, and what is on its way
\* was on its way before.
Delivered ==
  /\ UNCHANGED server /\ UNCHANGED unguarded
  /\ \A n \in DOMAIN stream' : \E k \in DOMAIN stream : stream'[n] = stream[k]
  /\ replies' \subseteq replies

LEMMA DeliveredCarries ==
  ASSUME Delivered
  PROVE  Still /\ \A G : Carries(G)
BY DEF Delivered, Still, server, Carries

LEMMA DeliveredContinues ==
  ASSUME TypeOK, TypeOK', NEW H, Chronicle(H), Converging(H), Delivered, Screen(H),
         connected' => \A s \in Sessions \ unread' :
                         \/ Awaited(s)'
                         \/ connected /\ s \notin unread /\ Reveals(H, s) /\ Delivers(s)
  PROVE  \E G : Chronicle(G)' /\ Converging(G)'
<1>1. Still /\ Moves /\ \A G : Carries(G)
  BY DeliveredCarries, StillMoves
<1>2. \A s \in Sessions : Carried(s)
  BY <1>1 DEF Still, Carried
<1>3. connected' => \A s \in Sessions \ unread' : Converges(H, s)
  BY <1>2 DEF Converges
<1> QED
  BY <1>1, <1>3, StepContinues

LEMMA BroadcastContinues ==
  ASSUME TypeOK, TypeOK', NEW H, Chronicle(H), Converging(H), ReceiveBroadcast
  PROVE  \E G : Chronicle(G)' /\ Converging(G)'
<1> DEFINE m == Head(stream)
<1>1. /\ stream \in Seq(Broadcasts) /\ stream # <<>> /\ stream' = Tail(stream)
      /\ UNCHANGED <<server, connected, calls, replies, rest>>
  BY TypeParts DEF ReceiveBroadcast
<1>2. /\ m \in Broadcasts /\ m = stream[1] /\ 1 \in DOMAIN stream
      /\ \A n \in DOMAIN stream' : n + 1 \in DOMAIN stream /\ stream'[n] = stream[n + 1]
      /\ \A n \in DOMAIN stream : n = 1 \/ (n - 1 \in DOMAIN stream' /\ stream'[n - 1] = stream[n])
  BY <1>1, HeadTailProperties
<1>3. m.session \in Sessions /\ m.view \in View /\ m.revision \in Revisions
  BY <1>2 DEF Broadcasts
<1>4. Told(H, m.session, m.view.items, m.revision, revision, unguarded)
  BY <1>2 DEF Chronicle, Truthful
<1>5. IF m.named THEN ApplyServerSession(m.session, m.view, m.revision)
      ELSE ApplyUnnamedSession(m.session, m.view, m.revision)
  BY DEF ReceiveBroadcast
<1>6. Screen(H)
  <2> HIDE DEF m
  <2>1. CASE m.named
    BY <1>3, <1>4, <1>5, <2>1, TakesSession
  <2>2. CASE ~m.named
    BY <1>3, <1>4, <1>5, <2>2, TakesUnnamed
  <2> QED
    BY <2>1, <2>2
<1>7. \A s \in Sessions : (Kept(s) \/ Updated(H, s)) /\ (m.named /\ s = m.session => Takes(H, s, m.revision))
  <2> HIDE DEF m
  <2>1. CASE m.named
    BY <1>3, <1>4, <1>5, <2>1, TakesSession DEF Takes
  <2>2. CASE ~m.named
    BY <1>3, <1>4, <1>5, <2>2, TakesUnnamed
  <2> QED
    BY <2>1, <2>2
<1>8. Delivered
  BY <1>1, <1>2 DEF Delivered, rest
<1>9. ASSUME NEW s \in Sessions PROVE Reveals(H, s)
  <2>1. Kept(s) \/ Updated(H, s)
    BY <1>7
  <2>2. ASSUME Kept(s), Asked(s), ~Updated(H, s)
        PROVE  Asked(s)'
    <3>1. m.named /\ s = m.session => Guard(s) > m.revision
      BY <1>7, <2>2 DEF Takes
    <3>2. m.revision \in Nat /\ Guard(s) \in Nat
      BY <1>3, GuardType, ProjectionBounds DEF Revisions
    <3>3. \A n \in DOMAIN stream :
            stream[n].session = s /\ stream[n].named /\ stream[n].revision >= Guard(s) =>
              n - 1 \in DOMAIN stream' /\ stream'[n - 1] = stream[n]
      BY <1>2, <3>1, <3>2
    <3> QED
      BY <1>1, <2>2, <3>3 DEF Kept, Asked, ToRead, rest
  <2> QED
    BY <2>1, <2>2 DEF Reveals
<1>10. ASSUME NEW s \in Sessions PROVE Delivers(s)
  <2>1. Guard(s) \in Nat /\ Guard(s)' \in Nat /\ Guard(s) \in 0 .. revision /\ revision \in Nat
    <3>1. revision \in Nat
      BY ProjectionBounds DEF TypeOK, Revisions
    <3> QED
      BY <3>1, GuardType DEF Chronicle, Seen
  <2>2. Guard(s)' \in Guard(s) .. revision
    BY <1>7, <2>1 DEF Kept, Updated, Told
  <2>3. m.named /\ s = m.session => Guard(s)' >= m.revision
    BY <1>3, <1>7, <2>1, ProjectionBounds DEF Takes, Kept, Revisions
  <2> QED
    BY <1>1, <1>2, <2>2, <2>3 DEF Delivers, Awaited, ToRead, rest
<1> QED
  BY <1>1, <1>6, <1>8, <1>9, <1>10, DeliveredContinues DEF rest

\* A response that has no directory, and is ignored: the client shows nothing the
\* session still has.
LEMMA IgnoredUnnamed ==
  ASSUME TypeOK, NEW H, Chronicle(H), NEW s \in Sessions, NEW rev,
         Told(H, s, {}, rev, revision, unguarded), Guard(s) <= rev
  PROVE  queues[s] \cap H[Guard(s)][s] = {}
<1>1. /\ H[rev][s] \subseteq unguarded /\ queues[s] \cap unguarded = {}
      /\ rev \in 0 .. revision /\ Guard(s) \in 0 .. revision /\ H[revision] = queues
      /\ revision \in 0 .. revision /\ rev <= revision
  BY ProjectionBounds DEF Told, Chronicle, Departed, Seen, Past, TypeOK, Revisions
<1>2. H[Guard(s)][s] \cap H[revision][s] \subseteq H[rev][s]
  BY <1>1 DEF Chronicle, Past
<1> QED
  BY <1>1, <1>2

LEMMA ReplyContinues ==
  ASSUME TypeOK, TypeOK', NamedReplies, NEW H, Chronicle(H), Converging(H),
         NEW r \in replies, ReceiveReply(r)
  PROVE  \E G : Chronicle(G)' /\ Converging(G)'
<1>1. /\ r.call \in Call /\ r.revision \in Revisions /\ r.named \in BOOLEAN
      /\ r.views \in [Scope(r.call) -> View]
      /\ \A s \in Scope(r.call) : Told(H, s, r.views[s].items, r.revision, revision, unguarded)
  BY TypeParts DEF ReplyOK, Chronicle, Truthful
<1>2. /\ UNCHANGED <<server, connected, stream, unguarded, unread, faults>>
      /\ replies' = replies \ {r} /\ calls \subseteq calls' /\ (ToRead => ToRead')
  BY DEF ReceiveReply, ToRead
<1>3. r.revision \in Nat /\ \A s \in Sessions : Guard(s) \in 0 .. revision /\ Guard(s) \in Nat /\ Guard(s)' \in Nat
  BY <1>1, GuardType, ProjectionBounds DEF Chronicle, Seen, Revisions
<1>4. /\ Screen(H)
      /\ \A s \in Sessions : Kept(s) \/ Updated(H, s)
      /\ \A s \in Sessions : Rereading(r.call, s) =>
           \/ Takes(H, s, r.revision)
           \/ /\ ~r.named /\ Kept(s)
              /\ Guard(s) <= r.revision => queues[s] \cap H[Guard(s)][s] = {}
  <2>1. CASE r.call.op = "hydrate"
    <3>1. Scope(r.call) = Sessions /\ ApplyOwnerSnapshot(r.views, r.revision)
      BY <1>1, <2>1, CallKinds DEF ReceiveReply
    <3> QED
      BY <1>1, <3>1, TakesSnapshot DEF Takes
  <2>2. CASE r.call.op # "hydrate"
    <3> DEFINE s == r.call.session
    <3>1. /\ s \in Sessions /\ Scope(r.call) = {s} /\ r.views[s] \in View /\ r.call # Hydration
          /\ Told(H, s, r.views[s].items, r.revision, revision, unguarded)
      BY <1>1, <2>2, CallKinds
    <3>2. CASE r.call.op \in Rereads /\ r.named
      <4>1. ApplyServerSession(s, r.views[s], r.revision)
        BY <2>2, <3>2 DEF ReceiveReply, Rereads
      <4> HIDE DEF s
      <4>2. /\ Screen(H) /\ Takes(H, s, r.revision) /\ \A t \in Sessions \ {s} : Kept(t)
        BY <1>1, <3>1, <4>1, TakesSession
      <4>3. \A t \in Sessions : Rereading(r.call, t) => t = s
        BY <3>1 DEF Rereading, s
      <4> QED
        BY <4>2, <4>3 DEF Takes
    <3>3. CASE r.call.op \in Rereads /\ ~r.named
      <4>1. ApplyUnnamedSession(s, r.views[s], r.revision) /\ r.views[s].items = {}
        BY <2>2, <3>3 DEF ReceiveReply, Rereads, NamedReplies
      <4>2. \A t \in Sessions : Rereading(r.call, t) => t = s
        BY <3>1 DEF Rereading
      <4>3. Guard(s) <= r.revision => queues[s] \cap H[Guard(s)][s] = {}
        <5> HIDE DEF s
        <5> QED
          BY <3>1, <4>1, IgnoredUnnamed
      <4> HIDE DEF s
      <4>4. /\ Screen(H) /\ \A t \in Sessions \ {s} : Kept(t)
            /\ Kept(s) \/ (Updated(H, s) /\ Takes(H, s, r.revision))
        BY <1>1, <3>1, <4>1, TakesUnnamed
      <4> QED
        BY <3>3, <4>2, <4>3, <4>4
    <3>4. CASE r.call.op = "add"
      <4>1. \A t \in Sessions : ~Rereading(r.call, t)
        BY <3>1, <3>4 DEF Rereading, Rereads
      <4>2. CASE Outdated(s, r.revision)
        <5>1. /\ shown' = [shown EXCEPT ![s] = @ \ {Draft}]
              /\ UNCHANGED <<applied, snapshotRevision, retired>>
          BY <3>4, <4>2 DEF ReceiveReply
        <5>2. \A t \in Sessions : shown'[t] \ {Draft} = shown[t] \ {Draft}
          BY <5>1 DEF TypeOK
        <5> QED
          BY <4>1, <5>1, <5>2 DEF Screen, Kept, Less, Guard
      <4>3. CASE ~Outdated(s, r.revision)
        <5>1. Show(s, r.views[s], r.revision)
          BY <3>4, <4>3 DEF ReceiveReply
        <5> HIDE DEF s
        <5> QED
          BY <1>1, <3>1, <4>1, <4>3, <5>1, ShowScreen
      <4> QED
        BY <4>2, <4>3
    <3> QED
      BY <1>1, <2>2, <3>2, <3>3, <3>4, CallKinds DEF Rereads
  <2> QED
    BY <2>1, <2>2
<1>5. Delivered
  BY <1>2 DEF Delivered
<1>6. ASSUME NEW s \in Sessions PROVE Reveals(H, s)
  <2>1. CASE Updated(H, s)
    BY <2>1 DEF Reveals
  <2>2. CASE Kept(s) /\ Rereading(r.call, s) /\ Guard(s) <= r.revision /\ ~Updated(H, s)
    <3>1. queues[s] \cap H[Guard(s)][s] = {}
      BY <1>3, <1>4, <2>2 DEF Takes
    <3> QED
      BY <2>2, <3>1 DEF Reveals
  <2>3. CASE Kept(s) /\ (Rereading(r.call, s) => ~(Guard(s) <= r.revision))
    <3>1. Asked(s) => Asked(s)'
      BY <1>2, <1>3, <2>3 DEF Asked, Kept
    <3> QED
      BY <2>3, <3>1 DEF Reveals
  <2> QED
    BY <1>4, <2>1, <2>2, <2>3
<1>7. ASSUME NEW s \in Sessions PROVE Delivers(s)
  <2>1. Guard(s)' \in Guard(s) .. revision
    BY <1>3, <1>4 DEF Kept, Updated, Told
  <2>2. Reads(r.call, s) => r.named /\ Rereading(r.call, s)
    BY <1>1, ReadsReread DEF NamedReplies, Reads, Hydration, ReadAgain
  <2>3. Reads(r.call, s) => Guard(s)' >= r.revision
    BY <1>3, <1>4, <2>2 DEF Takes, Kept
  <2> QED
    BY <1>2, <2>1, <2>3 DEF Delivers, Awaited
<1> QED
  BY <1>2, <1>4, <1>5, <1>6, <1>7, DeliveredContinues

\* What the user does hides something only together with a call that reads the
\* session again; so does a call that is refused or fails.
Hides ==
  /\ UNCHANGED <<server, connected, stream, unguarded, applied, snapshotRevision, retired>>
  /\ replies' \subseteq replies
  /\ \A s \in Sessions : Less(s)
  /\ \A s \in Sessions \ unread' :
       \/ Awaited(s)'
       \/ /\ s \notin unread /\ ~Awaited(s)
          /\ \A r \in replies \ replies' : ~Reads(r.call, s)
          /\ Asked(s)' \/ (Kept(s) /\ ~Asked(s))

LEMMA HidesContinues ==
  ASSUME TypeOK, TypeOK', NEW H, Chronicle(H), Converging(H), Hides
  PROVE  \E G : Chronicle(G)' /\ Converging(G)'
<1>1. Delivered
  BY DEF Delivered, Hides
<1>2. Screen(H)
  BY DEF Screen, Hides
<1>3. ASSUME NEW s \in Sessions \ unread', ~Awaited(s)'
      PROVE  s \notin unread /\ Reveals(H, s) /\ Delivers(s)
  <2>1. Guard(s) \in 0 .. revision /\ Guard(s)' = Guard(s) /\ revision \in Nat
    BY ProjectionBounds DEF Hides, Less, Chronicle, Seen, TypeOK, Revisions
  <2>2. /\ s \notin unread /\ ~Awaited(s)
        /\ \A r \in replies \ replies' : ~Reads(r.call, s)
        /\ Asked(s)' \/ (Kept(s) /\ ~Asked(s))
    BY <1>3 DEF Hides
  <2>3. Reveals(H, s)
    BY <2>2 DEF Reveals
  <2>4. Delivers(s)
    BY <2>1, <2>2 DEF Delivers, Hides
  <2> QED
    BY <2>2, <2>3, <2>4
<1> QED
  BY <1>1, <1>2, <1>3, DeliveredContinues DEF Hides

\* A call is added, and what it is about may show less.
LEMMA AskHides ==
  ASSUME TypeOK, TypeOK', NEW call, Ask(call),
         \A s \in Sessions : shown'[s] \ {Draft} = shown[s] \ {Draft}
                             \/ (shown'[s] \subseteq shown[s] /\ Rereading(call, s))
  PROVE  Hides
<1>1. /\ UNCHANGED <<server, connected, stream, unguarded, unread, applied, snapshotRevision, retired>>
      /\ replies' = replies /\ calls' = calls \cup {call} /\ resyncRequested' = resyncRequested
  BY DEF Ask, rest
<1>2. ToRead => ToRead'
  BY <1>1 DEF ToRead
<1>3. ASSUME NEW s \in Sessions
      PROVE  /\ Less(s) /\ (Asked(s)' \/ (Kept(s) /\ ~Asked(s)))
             /\ Awaited(s) => Awaited(s)'
  <2>1. Guard(s)' = Guard(s)
    BY <1>1 DEF Guard
  <2>2. Asked(s) => Asked(s)'
    BY <1>1, <1>2, <2>1 DEF Asked
  <2>3. Rereading(call, s) => Asked(s)'
    BY <1>1 DEF Asked
  <2>4. Awaited(s) => Awaited(s)'
    BY <1>1, <1>2 DEF Awaited
  <2> QED
    BY <2>1, <2>2, <2>3, <2>4 DEF Less, Kept
<1> QED
  BY <1>1, <1>3 DEF Hides

LEMMA UserHides ==
  ASSUME TypeOK, TypeOK', UserSteps
  PROVE  Hides
<1>1. CASE Hydrate
  <2>1. /\ UNCHANGED <<server, connected, stream, replies, client, unguarded>> /\ ToRead'
    BY <1>1 DEF Hydrate, ReadEverything, ToRead
  <2>2. \A s : Less(s) /\ Awaited(s)'
    BY <2>1, Unseen DEF Awaited, Less, Kept
  <2> QED
    BY <2>1, <2>2 DEF Hides, client
<1>2. ASSUME NEW s \in Sessions, AddToQueue(s) PROVE Hides
  <2>1. \A t \in Sessions : shown'[t] \ {Draft} = shown[t] \ {Draft}
    BY <1>2 DEF AddToQueue, TypeOK
  <2> QED
    BY <1>2, <2>1, AskHides DEF AddToQueue
<1>3. ASSUME NEW s \in Sessions, ClearQueue(s) PROVE Hides
  <2>1. \A t \in Sessions : shown'[t] \subseteq shown[t] /\ (t # s => shown'[t] = shown[t])
    BY <1>3 DEF ClearQueue, TypeOK
  <2>2. Rereading([op |-> "clear", session |-> s], s)
    BY DEF Rereading, Rereads
  <2> QED
    BY <1>3, <2>1, <2>2, AskHides DEF ClearQueue
<1>4. ASSUME NEW s \in Sessions, NEW i \in Items, RemoveFromQueue(s, i) PROVE Hides
  <2>1. \A t \in Sessions : shown'[t] \subseteq shown[t] /\ (t # s => shown'[t] = shown[t])
    BY <1>4 DEF RemoveFromQueue, TypeOK
  <2>2. Rereading([op |-> "remove", session |-> s, item |-> i], s)
    BY DEF Rereading, Rereads
  <2> QED
    BY <1>4, <2>1, <2>2, AskHides DEF RemoveFromQueue
<1>5. ASSUME NEW s \in Sessions, NEW i \in Items, TakeForSend(s, i) PROVE Hides
  BY <1>5, AskHides DEF TakeForSend
<1> QED
  BY <1>1, <1>2, <1>3, <1>4, <1>5 DEF UserSteps

\* Whatever a call that is over reads again, of session s, is asked for again.
LEMMA OverHides ==
  ASSUME TypeOK, NEW call, NEW s \in Sessions,
         UNCHANGED <<stream, applied, snapshotRevision>>, calls \ {call} \subseteq calls',
         \A r \in replies : r \in replies' \/ r.call = call,
         resyncRequested => resyncRequested',
         Rereading(call, s) => ReadAgain(s) \in calls', ~Awaited(s)'
  PROVE  /\ ~Awaited(s) /\ (Asked(s) => Asked(s)')
         /\ \A r \in replies \ replies' : ~Reads(r.call, s)
<1>1. ~Rereading(call, s)
  BY DEF Awaited
<1>2. ~Reads(call, s)
  BY <1>1, ReadsReread
<1>3. ~ToRead /\ ~Awaited(s)
  BY <1>2 DEF Awaited, ToRead, Reads
<1>4. Asked(s) => Asked(s)'
  BY <1>1, <1>3 DEF Asked, Guard
<1> QED
  BY <1>2, <1>3, <1>4

LEMMA FailsHides ==
  ASSUME TypeOK, TypeOK', NEW call \in Call, NEW others \in SUBSET Call, Fails(call, others),
         calls \ {call} \subseteq others, replies' \subseteq replies,
         \A r \in replies : r \in replies' \/ r.call = call
  PROVE  Hides
<1>1. /\ UNCHANGED <<server, connected, stream, applied, snapshotRevision, retired, unguarded>>
      /\ calls' = others \cup NextRead(call)
      /\ resyncRequested' = (resyncRequested /\ call # Hydration)
  BY DEF Fails
<1>2. \A s \in Sessions : shown'[s] \ {Draft} = shown[s] \ {Draft}
  <2>1. CASE call.op = "add"
    BY <2>1 DEF Fails, TypeOK
  <2>2. CASE call.op # "add"
    BY <2>2 DEF Fails
  <2> QED
    BY <2>1, <2>2
<1>3. \A s \in Sessions : Kept(s) /\ Less(s)
  BY <1>1, <1>2 DEF Kept, Less, Guard
<1>4. ASSUME NEW s \in Sessions \ unread', ~Awaited(s)'
      PROVE  /\ s \notin unread /\ ~Awaited(s)
             /\ \A r \in replies \ replies' : ~Reads(r.call, s)
             /\ Asked(s) => Asked(s)'
  <2>1. s \notin unread /\ (call.op \in {"refresh", "hydrate"} => s \notin Scope(call))
    BY <1>4 DEF Fails, Awaited, ToRead
  <2>2. call # Hydration
    BY <2>1 DEF Hydration, Scope
  <2>3. Rereading(call, s) => ReadAgain(s) \in calls'
    BY <1>1, <2>1, <2>2, CallKinds DEF Rereading, Rereads, NextRead
  <2>4. resyncRequested => resyncRequested'
    BY <1>1, <2>2 DEF TypeOK
  <2> QED
    BY <1>1, <1>4, <2>1, <2>3, <2>4, OverHides
<1> QED
  BY <1>1, <1>3, <1>4 DEF Hides

LEMMA LostHides ==
  ASSUME TypeOK, TypeOK',
         (\E call \in calls : RequestLost(call)) \/ \E r \in replies : ReplyLost(r)
  PROVE  Hides
<1>1. calls \subseteq Call /\ \A r \in replies : r.call \in Call
  BY TypeParts DEF ReplyOK
<1>2. ASSUME NEW call \in calls, RequestLost(call) PROVE Hides
  BY <1>1, <1>2, FailsHides DEF RequestLost
<1>3. ASSUME NEW r \in replies, ReplyLost(r) PROVE Hides
  BY <1>1, <1>3, FailsHides DEF ReplyLost
<1> QED
  BY <1>2, <1>3

LEMMA RefusedHides ==
  ASSUME TypeOK, TypeOK', NEW call \in calls, CallRefused(call)
  PROVE  Hides
<1> DEFINE s == call.session
<1>1. /\ UNCHANGED <<server, connected, stream, replies, client, resyncRequested, unguarded>>
      /\ unread' = unread \ {s} /\ calls' = (calls \ {call}) \cup {ReadAgain(s)}
      /\ call.op \in {"remove", "take"} /\ call # Hydration
  BY DEF CallRefused, Hydration
<1>2. \A t \in Sessions : Kept(t) /\ Less(t) /\ Guard(t)' = Guard(t)
  BY <1>1, Unseen DEF Less, Kept
<1>3. ASSUME NEW t \in Sessions \ unread', ~Awaited(t)'
      PROVE  /\ t \notin unread /\ ~Awaited(t) /\ (Asked(t) => Asked(t)')
             /\ \A r \in replies \ replies' : ~Reads(r.call, t)
  <2>1. t # s /\ t \notin unread
    BY <1>1, <1>3 DEF Awaited
  <2>2. ~Rereading(call, t)
    BY <1>1, <2>1 DEF Rereading
  <2> QED
    BY <1>1, <1>3, <2>1, <2>2, OverHides DEF client
<1> QED
  BY <1>1, <1>2, <1>3 DEF Hides, client

\* An outage loses what is on its way; a restart comes back with what is queued.
LEMMA OutageContinues ==
  ASSUME TypeOK, TypeOK', SavedLast, ~Happens("crash"), NEW H, Chronicle(H), Converging(H),
         Disconnect \/ StreamGap \/ Restart \/ Reconnect
  PROVE  \E G : Chronicle(G)' /\ Converging(G)'
<1>1. CASE Disconnect \/ StreamGap \/ Restart
  <2>1. Still
    <3>1. CASE Restart
      <4>1. disk = [queues |-> queues, revision |-> revision]
        BY <3>1 DEF Restart, GoesWrong, SavedLast
      <4> QED
        BY <3>1, <4>1 DEF Restart, Still
    <3> QED
      BY <1>1, <3>1 DEF Disconnect, StreamGap, server, Still
  <2>2. /\ ~connected' /\ replies' \subseteq replies /\ stream' = <<>>
        /\ UNCHANGED <<applied, snapshotRevision, retired>>
    BY <1>1 DEF Disconnect, StreamGap, Restart, ConnectionBreaks, client
  <2>3. \A s \in Sessions : shown'[s] \ {Draft} = shown[s] \ {Draft}
    BY <1>1 DEF Disconnect, StreamGap, Restart, ConnectionBreaks, client, TypeOK
  <2>4. Screen(H) /\ \A G : Carries(G)
    BY <2>2, <2>3 DEF Screen, Less, Guard, Carries
  <2> QED
    BY <2>1, <2>2, <2>4, StillMoves, StepContinues
<1>2. CASE Reconnect
  <2>1. UNCHANGED <<server, stream, replies, client, unguarded>> /\ ToRead'
    BY <1>2 DEF Reconnect, ReadEverything, ToRead
  <2>2. Screen(H) /\ Delivered
    BY <2>1, Unseen DEF Delivered
  <2>3. \A s : Awaited(s)'
    BY <2>1 DEF Awaited
  <2> QED
    BY <2>2, <2>3, DeliveredContinues
<1> QED
  BY <1>1, <1>2

\* A write ends, or nothing happens.
LEMMA IdleContinues ==
  ASSUME TypeOK, TypeOK', NEW H, Chronicle(H), Converging(H), WriteEnds \/ UNCHANGED vars
  PROVE  \E G : Chronicle(G)' /\ Converging(G)'
<1>1. UNCHANGED <<queues, revision, created, connected, stream, calls, replies, client, rest>>
  BY DEF WriteEnds, vars, server
<1>2. Serves
  BY <1>1 DEF Serves, Says, Still, rest
<1> QED
  BY <1>2, ServesContinues

-----------------------------------------------------------------------------
(* The file, and what is under way *)

LEMMA SavedLastStep ==
  ASSUME TypeOK, TypeOK', SavedLast, ~Happens("crash"), [Next]_vars
  PROVE  SavedLast'
<1>1. SUFFICES ASSUME Happens("restart")
               PROVE  SavedLast'
  BY DEF SavedLast, Happens
<1> DEFINE now == [queues |-> queues, revision |-> revision]
<1>2. /\ unsaved \in Seq(File) /\ Len(unsaved) \in Nat
      /\ unsaved = <<>> => disk = now
      /\ unsaved # <<>> => unsaved[Len(unsaved)] = now
  BY <1>1 DEF SavedLast, TypeOK
<1>3. CASE UNCHANGED <<queues, revision, unsaved, disk>>
  BY <1>2, <1>3 DEF SavedLast, Happens
<1>4. ASSUME Saves PROVE SavedLast'
  <2> DEFINE new == [queues |-> queues', revision |-> revision']
  <2>1. unsaved' = Append(unsaved, new)
    BY <1>1, <1>4 DEF Saves
  <2>2. unsaved' # <<>> /\ unsaved'[Len(unsaved')] = new
    <3> HIDE DEF new
    <3> QED
      BY <1>2, <2>1
  <2> QED
    BY <2>2 DEF SavedLast
<1>5. ASSUME NEW s \in Sessions, Edits(s) PROVE SavedLast'
  <2>1. Saves
    BY <1>5 DEF Edits, Enqueue, Clear, SendSucceeds, Drop, DropDeletedSession, Evict, Commit
  <2> QED
    BY <1>4, <2>1
<1>6. CASE ServerSteps
  <2>1. PICK s \in Sessions : Edits(s) \/ SendFails(s) \/ \E i \in Items : Claims(s, i)
    BY <1>6 DEF ServerSteps, Edits
  <2>2. CASE SendFails(s) \/ \E i \in Items : Claims(s, i)
    BY <1>3, <2>2 DEF SendFails, Claims, Server!Claim, Server!Release
  <2> QED
    BY <1>5, <2>1, <2>2
<1>7. CASE WriteEnds
  <2>1. unsaved # <<>> /\ disk' = Head(unsaved) /\ unsaved' = Tail(unsaved)
        /\ UNCHANGED <<queues, revision>>
    BY <1>7 DEF WriteEnds
  <2>2. /\ Len(unsaved') = Len(unsaved) - 1 /\ unsaved[1] = disk' /\ Len(unsaved) > 0
        /\ \A n \in 1 .. Len(unsaved') : unsaved'[n] = unsaved[n + 1]
        /\ unsaved' \in Seq(File)
    BY <1>2, <2>1, HeadTailProperties
  <2>3. CASE unsaved' = <<>>
    <3>1. Len(unsaved) = 1
      BY <1>2, <2>2, <2>3
    <3> QED
      BY <1>2, <2>1, <2>2, <2>3, <3>1 DEF SavedLast
  <2>4. CASE unsaved' # <<>>
    <3>1. Len(unsaved') \in Nat /\ Len(unsaved') # 0
      BY <2>2, <2>4, EmptySeq
    <3>2. unsaved'[Len(unsaved')] = unsaved[Len(unsaved)]
      BY <1>2, <2>2, <3>1
    <3> QED
      BY <1>2, <2>1, <2>4, <3>2 DEF SavedLast
  <2> QED
    BY <2>3, <2>4
<1>8. ASSUME NEW call \in calls, Handle(call) PROVE SavedLast'
  <2>1. CASE UNCHANGED <<server, stream>>
    BY <1>3, <2>1 DEF server
  <2>2. CASE ~UNCHANGED <<server, stream>>
    <3>1. call \in Call
      BY TypeParts
    <3>2. call.session \in Sessions /\ Edits(call.session)
      BY <1>8, <2>2, <3>1, CallKinds DEF Handle, Edits
    <3> QED
      BY <1>5, <3>2
  <2> QED
    BY <2>1, <2>2
<1>9. CASE Restart
  <2>1. unsaved = <<>> /\ unsaved' = <<>> /\ disk' = disk /\ disk = now
        /\ queues' = disk.queues /\ revision' = disk.revision
    BY <1>2, <1>9 DEF Restart
  <2> QED
    BY <2>1 DEF SavedLast
<1>10. CASE \/ ClientSteps \/ Disconnect \/ StreamGap \/ Reconnect \/ UNCHANGED vars
            \/ \E call \in calls : CallRefused(call) \/ RequestLost(call)
  <2>1. UNCHANGED server
    BY <1>10 DEF ClientSteps, ReceiveBroadcast, Hydrate, AddToQueue, ClearQueue, RemoveFromQueue,
       TakeForSend, Ask, ReceiveReply, ReplyLost, RequestLost, Fails, Disconnect, StreamGap,
       Reconnect, CallRefused, vars
  <2> QED
    BY <1>3, <2>1 DEF server
<1> QED
  BY <1>6, <1>7, <1>8, <1>9, <1>10 DEF Next

Add(s) == [op |-> "add", session |-> s]

\* A call is over when what it stands for is.
LEMMA PromisedContinues ==
  ASSUME Promised,
         \A c \in Underway : \/ c \in Underway'
                             \/ c = Hydration /\ ~resyncRequested'
                             \/ c # Hydration /\ \A s \in Sessions : c = Add(s) => Draft \notin shown'[s],
         \A s \in Sessions : Draft \in shown'[s] => Draft \in shown[s] \/ Add(s) \in Underway',
         resyncRequested' => resyncRequested \/ Hydration \in Underway'
  PROVE  Promised'
<1>1. \A s : Add(s) # Hydration
  <2>1. \A s : Add(s).op = "add" /\ Hydration.op = "hydrate"
    BY DEF Add, Hydration
  <2> QED
    BY <2>1
<1> QED
  BY <1>1 DEF Promised, Add, Hydration

\* No message shows a draft.
LEMMA NoDraftShown ==
  ASSUME TypeOK, NEW s \in Sessions, NEW view \in View, NEW rev,
         ApplyServerSession(s, view, rev) \/ ApplyUnnamedSession(s, view, rev) \/ Show(s, view, rev)
  PROVE  \A t \in Sessions : Draft \in shown'[t] => Draft \in shown[t]
<1>1. Draft \notin view.items
  BY ProjectionBounds DEF View, Items, Draft
<1>2. ASSUME NEW v, Draft \notin v.items, Show(s, v, rev)
      PROVE  \A t \in Sessions : Draft \in shown'[t] => Draft \in shown[t]
  BY <1>2 DEF Show, TypeOK
<1>3. Draft \notin [items |-> {}, sendingId |-> NoItem].items
  OBVIOUS
<1> QED
  BY <1>1, <1>2, <1>3 DEF ApplyServerSession, ApplyUnnamedSession, client

LEMMA PromisedFails ==
  ASSUME TypeOK, Promised, NEW call \in Call, NEW others, Fails(call, others),
         \A c \in Underway : c \in Underway' \/ c = call
  PROVE  Promised'
<1>1. resyncRequested' = (resyncRequested /\ call # Hydration)
  BY DEF Fails
<1>2. \A s \in Sessions : Draft \in shown'[s] => Draft \in shown[s] /\ call # Add(s)
  <2>1. CASE call.op = "add"
    <3>1. call.session \in Sessions /\ shown' = [shown EXCEPT ![call.session] = @ \ {Draft}]
      BY <2>1, CallKinds DEF Fails
    <3> QED
      BY <3>1 DEF TypeOK, Add
  <2>2. CASE call.op # "add"
    BY <2>2 DEF Fails, Add
  <2> QED
    BY <2>1, <2>2
<1>3. \A c \in Underway : \/ c \in Underway'
                          \/ c = Hydration /\ ~resyncRequested'
                          \/ c # Hydration /\ \A s \in Sessions : c = Add(s) => Draft \notin shown'[s]
  BY <1>1, <1>2
<1>4. \A s \in Sessions : Draft \in shown'[s] => Draft \in shown[s]
  BY <1>2
<1>5. resyncRequested' => resyncRequested
  BY <1>1
<1> QED
  BY <1>3, <1>4, <1>5, PromisedContinues

LEMMA PromisedLost ==
  ASSUME TypeOK, Promised,
         (\E call \in calls : RequestLost(call)) \/ \E r \in replies : ReplyLost(r)
  PROVE  Promised'
<1>1. calls \subseteq Call /\ \A r \in replies : r.call \in Call
  BY TypeParts DEF ReplyOK
<1>2. ASSUME NEW call \in calls, RequestLost(call) PROVE Promised'
  <2>1. Fails(call, calls \ {call}) /\ \A c \in Underway : c \in Underway' \/ c = call
    BY <1>2 DEF RequestLost, Fails, Underway
  <2> QED
    BY <1>1, <2>1, PromisedFails
<1>3. ASSUME NEW r \in replies, ReplyLost(r) PROVE Promised'
  <2>1. Fails(r.call, calls) /\ \A c \in Underway : c \in Underway' \/ c = r.call
    BY <1>3 DEF ReplyLost, Fails, Underway
  <2> QED
    BY <1>1, <2>1, PromisedFails
<1> QED
  BY <1>2, <1>3

LEMMA PromisedReply ==
  ASSUME TypeOK, TypeOK', Promised, NEW r \in replies, ReceiveReply(r)
  PROVE  Promised'
<1>1. r.call \in Call /\ r.revision \in Revisions /\ r.views \in [Scope(r.call) -> View]
  BY TypeParts DEF ReplyOK
<1>2. calls \subseteq calls' /\ replies' = replies \ {r}
  BY DEF ReceiveReply
<1>3. \A c \in Underway : c \in Underway' \/ c = r.call
  BY <1>2 DEF Underway
<1>4. resyncRequested' => resyncRequested
  BY DEF ReceiveReply
<1>5. CASE r.call.op = "hydrate"
  <2>1. Scope(r.call) = Sessions /\ r.call = Hydration
    BY <1>1, <1>5, CallKinds
  <2>2. ApplyOwnerSnapshot(r.views, r.revision) /\ ~resyncRequested'
    BY <1>5 DEF ReceiveReply
  <2>3. \A s \in Sessions : r.views[s].items \subseteq Items /\ Draft \notin Items
    BY <1>1, <2>1, ProjectionBounds DEF View, Items, Draft
  <2>4. \A s \in Sessions : Draft \in shown'[s] => Draft \in shown[s]
    <3>1. CASE UNCHANGED client
      BY <3>1 DEF client
    <3>2. CASE ~UNCHANGED client
      <4>1. shown' = [s \in Sessions |-> IF s \in Replaced(r.revision) THEN r.views[s].items ELSE shown[s]]
        BY <2>2, <3>2 DEF ApplyOwnerSnapshot, Replaced
      <4> QED
        BY <2>3, <4>1
    <3> QED
      BY <3>1, <3>2
  <2> QED
    BY <1>3, <1>4, <2>1, <2>2, <2>4, PromisedContinues
<1>6. CASE r.call.op # "hydrate"
  <2> DEFINE s == r.call.session
  <2>1. s \in Sessions /\ r.call # Hydration /\ r.views[s] \in View
    BY <1>1, <1>6, CallKinds
  <2>2. CASE shown' = [shown EXCEPT ![s] = @ \ {Draft}]
    <3>1. \A t \in Sessions : Draft \in shown'[t] => Draft \in shown[t] /\ t # s
      BY <2>1, <2>2 DEF TypeOK
    <3>2. \A t \in Sessions : r.call = Add(t) => t = s
      BY DEF Add
    <3> QED
      BY <1>3, <1>4, <2>1, <3>1, <3>2, PromisedContinues
  <2>3. CASE Show(s, r.views[s], r.revision)
    <3>1. \A t \in Sessions : Draft \in shown'[t] => Draft \in shown[t]
      <4> HIDE DEF s
      <4> QED
        BY <2>1, <2>3, NoDraftShown
    <3>2. Draft \notin r.views[s].items
      BY <2>1, ProjectionBounds DEF View, Items, Draft
    <3>3. Draft \notin shown'[s]
      BY <2>1, <2>3, <3>2 DEF Show, TypeOK
    <3>4. \A t \in Sessions : r.call = Add(t) => t = s
      BY DEF Add
    <3> QED
      BY <1>3, <1>4, <2>1, <3>1, <3>3, <3>4, PromisedContinues
  <2>4. CASE r.call.op # "add"
    <3>1. \A t \in Sessions : Draft \in shown'[t] => Draft \in shown[t]
      <4>1. \/ ApplyServerSession(s, r.views[s], r.revision)
            \/ ApplyUnnamedSession(s, r.views[s], r.revision)
        BY <1>6, <2>4 DEF ReceiveReply
      <4> HIDE DEF s
      <4> QED
        BY <2>1, <4>1, NoDraftShown
    <3>2. \A t \in Sessions : r.call # Add(t)
      BY <2>4 DEF Add
    <3> QED
      BY <1>3, <1>4, <2>1, <3>1, <3>2, PromisedContinues
  <2> QED
    BY <1>1, <1>6, <2>2, <2>3, <2>4 DEF ReceiveReply
<1> QED
  BY <1>5, <1>6

LEMMA PromisedStep ==
  ASSUME TypeOK, TypeOK', Promised, [Next]_vars
  PROVE  Promised'
<1>1. CASE Serves
  <2>1. UNCHANGED <<shown, resyncRequested>>
    BY <1>1 DEF Serves, client
  <2>2. \A c \in Underway : c \in Underway'
    <3>1. ASSUME NEW call \in calls, calls' = calls \ {call}, Answer(call)
          PROVE  \A c \in Underway : c \in Underway'
      <4>1. PICK r : replies' = replies \cup {r} /\ r.call = call
        BY <3>1, AnswerAdds
      <4> QED
        BY <3>1, <4>1 DEF Underway
    <3>2. CASE UNCHANGED <<calls, replies>>
      BY <3>2 DEF Underway
    <3> QED
      BY <1>1, <3>1, <3>2 DEF Serves
  <2> QED
    BY <2>1, <2>2, PromisedContinues
<1>2. CASE WriteEnds \/ UNCHANGED vars
  BY <1>2 DEF WriteEnds, vars, client, rest, Promised, Underway
<1>3. CASE ReceiveBroadcast
  <2> DEFINE m == Head(stream)
  <2>1. /\ UNCHANGED <<calls, replies, resyncRequested>>
        /\ stream \in Seq(Broadcasts) /\ stream # <<>>
        /\ \/ ApplyServerSession(m.session, m.view, m.revision)
           \/ ApplyUnnamedSession(m.session, m.view, m.revision)
    BY <1>3, TypeParts DEF ReceiveBroadcast, rest
  <2>2. m \in Broadcasts
    BY <2>1, HeadTailProperties
  <2>3. m.session \in Sessions /\ m.view \in View
    BY <2>2 DEF Broadcasts
  <2> HIDE DEF m
  <2>4. \A t \in Sessions : Draft \in shown'[t] => Draft \in shown[t]
    BY <2>1, <2>3, NoDraftShown
  <2> QED
    BY <2>1, <2>4, PromisedContinues DEF Underway
<1>4. CASE Hydrate \/ Reconnect
  <2>1. UNCHANGED <<shown, replies>> /\ ReadEverything
    BY <1>4 DEF Hydrate, Reconnect, client
  <2>2. Hydration \in Underway' /\ Underway \subseteq Underway'
    BY <2>1 DEF ReadEverything, Underway
  <2> QED
    BY <2>1, <2>2, PromisedContinues
<1>5. ASSUME NEW c, Ask(c),
             \A t \in Sessions : Draft \in shown'[t] => Draft \in shown[t] \/ c = Add(t)
      PROVE  Promised'
  BY <1>5, PromisedContinues DEF Ask, rest, Underway
<1>6. ASSUME NEW s \in Sessions,
             \/ AddToQueue(s) \/ ClearQueue(s)
             \/ \E i \in Items : RemoveFromQueue(s, i) \/ TakeForSend(s, i)
      PROVE  Promised'
  <2>1. CASE AddToQueue(s)
    BY <1>5, <2>1 DEF AddToQueue, Add, TypeOK
  <2>2. CASE ClearQueue(s)
    BY <1>5, <2>2 DEF ClearQueue, TypeOK
  <2>3. CASE \E i \in Items : RemoveFromQueue(s, i) \/ TakeForSend(s, i)
    BY <1>5, <2>3 DEF RemoveFromQueue, TakeForSend, TypeOK
  <2> QED
    BY <1>6, <2>1, <2>2, <2>3
<1>7. ASSUME NEW call \in calls, CallRefused(call) PROVE Promised'
  <2>1. /\ UNCHANGED <<replies, shown, resyncRequested>> /\ calls \ {call} \subseteq calls'
        /\ call # Hydration /\ \A s : call # Add(s)
    BY <1>7 DEF CallRefused, client, rest, Add, Hydration
  <2> QED
    BY <2>1, PromisedContinues DEF Underway
<1>8. CASE Disconnect \/ Restart
  <2>1. ~resyncRequested' /\ \A s \in Sessions : Draft \notin shown'[s]
    BY <1>8 DEF Disconnect, Restart, ConnectionBreaks
  <2> QED
    BY <2>1 DEF Promised
<1>9. CASE StreamGap
  BY <1>9 DEF StreamGap, client, Promised, Underway
<1> QED
  BY <1>1, <1>2, <1>3, <1>4, <1>6, <1>7, <1>8, <1>9, PromisedReply, PromisedLost, ServerServes,
     HandleServes DEF Next, ClientSteps

LEMMA NamedRepliesStep ==
  ASSUME TypeOK, TypeOK', NamedReplies, [Next]_vars
  PROVE  NamedReplies'
<1>1. ASSUME replies' \subseteq replies PROVE NamedReplies'
  BY <1>1 DEF NamedReplies
<1>2. ASSUME NEW call \in calls, Handle(call) PROVE NamedReplies'
  <2>1. call \in Call
    BY TypeParts
  <2>2. PICK r : /\ replies' = replies \cup {r} /\ r.call = call
                 /\ \A s \in Scope(call) : r.views[s].items = queues'[s]
                 /\ r.named \/ (call.op \notin {"refresh", "hydrate"} /\ ~Named(call.session)')
    BY <1>2, AnswerAdds DEF Handle
  <2>3. ASSUME ~r.named
        PROVE  call.op # "add" /\ r.views[call.session].items = {}
    <3>1. call.session \in Scope(call) /\ call.session \notin directories' /\ queues'[call.session] = {}
      BY <2>1, <2>2, <2>3, CallKinds DEF Named
    <3>2. call.op = "add" => call.session \in directories'
      BY <1>2, <2>1, CallKinds DEF Handle, Enqueue
    <3> QED
      BY <2>2, <3>1, <3>2
  <2> QED
    BY <2>2, <2>3 DEF NamedReplies
<1>3. CASE \/ ServerSteps \/ WriteEnds \/ Disconnect \/ StreamGap \/ Restart \/ Reconnect
           \/ UNCHANGED vars \/ \E call \in calls : CallRefused(call) \/ RequestLost(call)
  BY <1>1, <1>3 DEF ServerSteps, WriteEnds, Disconnect, StreamGap, Restart, ConnectionBreaks,
     Reconnect, CallRefused, RequestLost, vars
<1>4. CASE ClientSteps
  BY <1>1, <1>4 DEF ClientSteps, ReceiveBroadcast, Hydrate, AddToQueue, ClearQueue, RemoveFromQueue,
     TakeForSend, Ask, ReceiveReply, ReplyLost
<1> QED
  BY <1>2, <1>3, <1>4 DEF Next

-----------------------------------------------------------------------------
(* Theorems *)

Projection ==
  /\ TypeOK /\ SavedLast /\ Promised /\ NamedReplies
  /\ \E H : Chronicle(H) /\ Converging(H)

LEMMA ProjectionInit ==
  ASSUME Init
  PROVE  Projection
<1>1. TypeOK
  BY TypeInit
<1>2. SavedLast
  BY DEF Init, SavedLast
<1>3. Promised /\ NamedReplies
  BY DEF Init, Promised, NamedReplies
<1> DEFINE H == [r \in Nat |-> [s \in Sessions |-> {}]]
<1>4. H \in Histories /\ \A r \in Nat, s \in Sessions : H[r][s] = {}
  BY DEF Histories
<1>5. H[revision] = queues /\ revision \in Nat
  BY DEF Init
<1> HIDE DEF H
<1>6. Past(H)
  BY <1>4, <1>5 DEF Past
<1>7. Truthful(H) /\ Departed
  BY DEF Init, Truthful, Departed
<1>8. \A s \in Sessions : Guard(s) = 0 /\ shown[s] = {}
  BY DEF Init, Guard, Never
<1>9. Seen(H)
  BY <1>4, <1>5, <1>8 DEF Init, Seen
<1>10. Converging(H)
  BY DEF Init, Converging, Covered, Revealing, Awaited, Asked, ToRead
<1> QED
  BY <1>1, <1>2, <1>3, <1>6, <1>7, <1>9, <1>10 DEF Projection, Chronicle

LEMMA ProjectionStep ==
  ASSUME ~Happens("crash"), Projection, [Next]_vars
  PROVE  Projection'
<1>1. TypeOK /\ TypeOK' /\ SavedLast /\ SavedLast' /\ Promised' /\ NamedReplies /\ NamedReplies'
  BY TypeStep, SavedLastStep, PromisedStep, NamedRepliesStep DEF Projection
<1>2. PICK H : Chronicle(H) /\ Converging(H)
  BY DEF Projection
<1>3. CASE ServerSteps
  BY <1>1, <1>2, <1>3, ServerServes, ServesContinues
     DEF Projection
<1>4. ASSUME NEW call \in calls, Handle(call) \/ CallRefused(call) PROVE Projection'
  BY <1>1, <1>2, <1>4, HandleServes, ServesContinues, RefusedHides, HidesContinues DEF Projection
<1>5. CASE WriteEnds \/ UNCHANGED vars
  BY <1>1, <1>2, <1>5, IdleContinues DEF Projection
<1>6. CASE ReceiveBroadcast
  BY <1>1, <1>2, <1>6, BroadcastContinues DEF Projection
<1>7. ASSUME NEW r \in replies, ReceiveReply(r) PROVE Projection'
  BY <1>1, <1>2, <1>7, ReplyContinues DEF Projection
<1>10. CASE (\E call \in calls : RequestLost(call)) \/ \E r \in replies : ReplyLost(r)
  BY <1>1, <1>2, <1>10, LostHides, HidesContinues DEF Projection
<1>8. CASE UserSteps
  BY <1>1, <1>2, <1>8, UserHides, HidesContinues DEF Projection
<1>9. CASE Disconnect \/ StreamGap \/ Restart \/ Reconnect
  BY <1>1, <1>2, <1>9, OutageContinues DEF Projection
<1> QED
  BY <1>3, <1>4, <1>5, <1>6, <1>7, <1>8, <1>9, <1>10 DEF Next, ClientSteps, UserSteps

\* Without a crash that loses writes the client's projection is sound: there is a
\* history of the queues that every message tells, the screen shows, and that the
\* client catches up with - but for a session of which a read has failed and nothing
\* has been asked or said since, which it may go on showing as it was.
THEOREM ProjectionSound ==
  ASSUME ~Happens("crash")
  PROVE  Spec => []Projection
<1>1. Init => Projection
  BY ProjectionInit
<1>2. Projection /\ [Next]_vars => Projection'
  BY ProjectionStep
<1> QED
  BY <1>1, <1>2, PTL DEF Spec

\* What a message took off the screen is not shown again by a late one, however
\* many sessions, revisions and faults there are: what is shown was queued at the
\* session's guard, and what was retired has not been queued since.
THEOREM NoResurrectionCorrect ==
  ASSUME ~Happens("crash")
  PROVE  Spec => []NoResurrection
<1>1. ASSUME Projection PROVE NoResurrection
  <2>1. PICK H : Chronicle(H)
    BY <1>1 DEF Projection
  <2> SUFFICES ASSUME NEW s \in Sessions, NEW i \in shown[s], i \in retired, i \notin unguarded
               PROVE  FALSE
    BY DEF NoResurrection
  <2>2. i # Draft /\ TypeOK
    BY <1>1, ProjectionBounds DEF Projection, TypeOK, Items, Draft
  <2>3. i \in H[Guard(s)][s]
    BY <2>1, <2>2, ShownWereQueued DEF Chronicle
  <2>4. Guard(s) \in Guard(s) .. revision
    BY <2>1 DEF Chronicle, Seen
  <2> QED
    BY <2>1, <2>3, <2>4 DEF Chronicle, Seen
<1> QED
  BY <1>1, ProjectionSound, PTL

\* When everything has arrived the client shows what is queued: a lost broadcast, a
\* request or a response that failed is made good by a later read - unless it was
\* that read that failed, in which case the session stays as it is shown until it is
\* broadcast or asked for again.
THEOREM ShownConvergesCorrect ==
  ASSUME ~Happens("crash")
  PROVE  Spec => []ShownConverges
<1>1. ASSUME Projection PROVE ShownConverges
  <2>1. PICK H : Chronicle(H) /\ Converging(H)
    BY <1>1 DEF Projection
  <2> SUFFICES ASSUME Settled, NEW s \in Sessions, s \notin unread
               PROVE  queues[s] \subseteq shown[s] /\ shown[s] \subseteq queues[s] \cup unguarded
    BY DEF ShownConverges
  <2>2. /\ Underway = {} /\ ~resyncRequested /\ ~ToRead /\ ~Awaited(s) /\ ~Asked(s)
        /\ Draft \notin shown[s]
    BY <1>1 DEF Settled, Underway, Projection, Promised, ToRead, Awaited, Asked
  <2>3. Covered(H, s) /\ Revealing(H, s)
    BY <2>1 DEF Converging, Settled
  <2>4. queues[s] \cap H[Guard(s)][s] \subseteq shown[s]
    BY <2>2, <2>3 DEF Revealing
  <2>5. Current(H, s, Guard(s), revision, unguarded)
    BY <2>2, <2>3 DEF Covered, Settled
  <2>6. H[Guard(s)][s] \ unguarded = queues[s] \ unguarded
    BY <2>1, <2>5 DEF Current, Chronicle, Seen, Past
  <2>7. queues[s] \cap unguarded = {} /\ shown[s] \ {Draft} \subseteq H[Guard(s)][s]
    BY <2>1 DEF Chronicle, Departed, Seen
  <2> QED
    BY <2>2, <2>4, <2>6, <2>7
<1> QED
  BY <1>1, ProjectionSound, PTL
=============================================================================
