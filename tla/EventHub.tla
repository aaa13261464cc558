------------------------------ MODULE EventHub ------------------------------
(***************************************************************************)
(* The event stream: one reader of OpenCode's events, a coalescer of text  *)
(* fragments, a hub that commits what it emits to a replay buffer and to   *)
(* every subscriber, the WebSocket bridge to the browsers, and the cursor  *)
(* with which a client resumes (packages/web/server/lib/event-stream/ and  *)
(* packages/ui/src/sync/).                                                 *)
(*                                                                         *)
(* Events are numbered as OpenCode produces them and carry that number as  *)
(* their id; the id of a merged event is that of its last fragment.  What  *)
(* happens while the reader is not connected never reaches the hub, for    *)
(* OpenCode replays nothing.                                               *)
(***************************************************************************)
EXTENDS Naturals, Sequences, FiniteSets, SequencesExt

CONSTANTS
  Clients,
  Streams,       \* merge keys: a text, a reasoning or a tool input
  Behaviours,    \* the optional steps that happen
  REPLAY_LIMIT,  \* frames the replay buffer retains
  PENDING_LIMIT, \* fragments the coalescer holds back
  MaxEvents,     \* bound: events of OpenCode
  MaxFaults      \* bound: steps that go wrong, of all kinds together

ASSUME HubBounds ==
  /\ REPLAY_LIMIT \in Nat /\ PENDING_LIMIT \in Nat \ {0}
  /\ MaxEvents \in Nat /\ MaxFaults \in Nat

Barrier == "barrier"  \* any event that is not a fragment
Huge == "huge"        \* one whose frame exceeds the byte limit of the replay
Kinds == Streams \cup {Barrier, Huge}
NoCursor == 0

VARIABLES
  log,           \* kinds of the events OpenCode produced
  \* the hub
  reader,        \* "dialing" or "up"
  everConnected,
  pending,       \* texts the coalescer holds back, in order of emission
  replay,        \* texts of the retained frames
  latest,        \* latestEventId
  \* the bridge
  socket,        \* "closed", "waiting" for the upstream, or "ready"
  asked,         \* clientLastEventIds
  wire,          \* frames on their way to a client
  \* a client
  cursor,        \* lastEventId
  fresh,         \* neither connected nor disconnected before
  booting,       \* isRecentBoot
  bootRead,      \* the bootstrap has read OpenCode's state
  resync,        \* a re-read: "no", "asked", or "answered" by OpenCode
  \* history
  committed,     \* texts of the frames committed
  lost,          \* events that never reached the hub, or went down with it
  got,           \* events a client was sent, in order
  seen,          \* events a client was sent or has read from OpenCode
  excused,       \* events it is known to miss
  faults

hub     == <<reader, everConnected, pending, replay, latest, committed>>
bridge  == <<socket, asked>>
client  == <<cursor, fresh, booting, bootRead, resync, got, seen>>
reads   == <<booting, bootRead, resync>>
vars    == <<log, hub, bridge, wire, client, lost, excused, faults>>

Events == 1 .. MaxEvents
Happened == 1 .. Len(log)
Texts == Seq(Events) \ {<<>>}
Frames == [type : {"ready"}, replayReset : BOOLEAN] \cup [type : {"event"}, text : Texts]

\* The events of texts.
Held(texts) == UNION {Range(texts[i]) : i \in DOMAIN texts}

\* What hub, bridge and clients hold; the limits of the hub are kept.
TypeOK ==
  /\ Len(replay) <= REPLAY_LIMIT /\ Cardinality(Held(pending)) < PENDING_LIMIT
  /\ log \in Seq(Kinds) /\ Len(log) <= MaxEvents
  /\ reader \in {"dialing", "up"} /\ everConnected \in BOOLEAN
  /\ pending \in Seq(Texts) /\ replay \in Seq(Texts) /\ committed \in Seq(Texts)
  /\ latest \in Events \cup {NoCursor}
  /\ socket \in [Clients -> {"closed", "waiting", "ready"}]
  /\ asked \in [Clients -> Events \cup {NoCursor}]
  /\ wire \in [Clients -> Seq(Frames)]
  /\ cursor \in [Clients -> Events \cup {NoCursor}]
  /\ fresh \in [Clients -> BOOLEAN] /\ booting \in [Clients -> BOOLEAN]
  /\ bootRead \in [Clients -> BOOLEAN]
  /\ resync \in [Clients -> {"no", "asked", "answered"}]
  /\ got \in [Clients -> Seq(Events)]
  /\ lost \subseteq Events
  /\ seen \in [Clients -> SUBSET Events] /\ excused \in [Clients -> SUBSET Events]
  /\ faults \in 0 .. MaxFaults

Init ==
  /\ log = <<>> /\ reader = "dialing" /\ everConnected = FALSE
  /\ pending = <<>> /\ replay = <<>> /\ latest = NoCursor /\ committed = <<>>
  /\ socket = [c \in Clients |-> "closed"]
  /\ asked = [c \in Clients |-> NoCursor]
  /\ wire = [c \in Clients |-> <<>>]
  /\ cursor = [c \in Clients |-> NoCursor]
  /\ fresh = [c \in Clients |-> TRUE]
  /\ booting \in [Clients -> IF "boot" \in Behaviours THEN {TRUE} ELSE {FALSE}]
  /\ bootRead = [c \in Clients |-> FALSE] /\ resync = [c \in Clients |-> "no"]
  /\ got = [c \in Clients |-> <<>>]
  /\ lost = {} /\ seen = [c \in Clients |-> {}] /\ excused = seen
  /\ faults = 0

GoesWrong(behaviour) ==
  /\ behaviour \in Behaviours /\ faults < MaxFaults
  /\ faults' = faults + 1

-----------------------------------------------------------------------------
(* The hub *)

IsHuge(text) == log'[Head(text)] = Huge

\* Mutant: an oversized event is left out of the buffer.
RetainedAround(buffer, texts) ==
  LET kept == SelectSeq(buffer \o texts, LAMBDA text : ~IsHuge(text))
  IN  SubSeq(kept, IF Len(kept) > REPLAY_LIMIT THEN 1 + Len(kept) - REPLAY_LIMIT ELSE 1, Len(kept))

\* Mutant: nothing is evicted.
RetainedForever(buffer, texts) ==
  LET all == buffer \o texts
  IN  SubSeq(all, Min({k \in 1 .. Len(all) + 1 : \A i \in k .. Len(all) : ~IsHuge(all[i])}), Len(all))

\* What the buffer retains when texts are committed one after the other: the
\* latest up to its limit, and nothing across an oversized event.
Retained(buffer, texts) ==
  LET all == buffer \o texts
      starts == {k \in 1 .. Len(all) + 1 : /\ Len(all) < k + REPLAY_LIMIT
                                          /\ \A i \in k .. Len(all) : ~IsHuge(all[i])}
  IN  SubSeq(all, Min(starts), Len(all))

EventFrames(texts) == [i \in DOMAIN texts |-> [type |-> "event", text |-> texts[i]]]

\* commitEvent, of several in a row.
Commit(texts) ==
  /\ replay' = Retained(replay, texts)
  /\ latest' = IF texts = <<>> THEN latest ELSE Last(Last(texts))
  /\ committed' = committed \o texts

\* Each frame goes to every client that is ready.
Sent(c, texts) == IF socket[c] = "ready" THEN wire[c] \o EventFrames(texts) ELSE wire[c]

Emit(texts) == Commit(texts) /\ wire' = [c \in Clients |-> Sent(c, texts)]

Mine(text, stream) == log[Head(text)] = stream

\* Mutant: a fragment stays where its stream was first seen.
MergedInPlace(n, stream) ==
  IF \E i \in DOMAIN pending : Mine(pending[i], stream)
  THEN [i \in DOMAIN pending |-> IF Mine(pending[i], stream) THEN Append(pending[i], n)
                                 ELSE pending[i]]
  ELSE Append(pending, <<n>>)

\* The texts held back with fragment n of a stream, which moves to the end.
Merged(n, stream) ==
  LET at == {i \in DOMAIN pending : Mine(pending[i], stream)} IN
  IF at = {} THEN Append(pending, <<n>>)
  ELSE LET i == CHOOSE i \in at : TRUE
       IN  Append(RemoveAt(pending, i), Append(pending[i], n))

\* A fragment goes out at once after a quiet spell, else it is held back until
\* the window ends or too much is.
PushFragment(n, stream) ==
  \/ pending = <<>> /\ Emit(<<<<n>>>>) /\ UNCHANGED pending
  \/ LET next == Merged(n, stream) IN
     IF Cardinality(Held(next)) >= PENDING_LIMIT
     THEN Emit(next) /\ pending' = <<>>
     ELSE pending' = next /\ UNCHANGED <<replay, latest, committed, wire>>

\* Mutant: a barrier overtakes what is held back.
PushAhead(n) == Emit(<<<<n>>>>) /\ UNCHANGED pending

\* Anything else is a barrier.
PushBarrier(n) == Emit(Append(pending, <<n>>)) /\ pending' = <<>>

\* OpenCode produces an event.
Produce(kind) ==
  /\ Len(log) < MaxEvents
  /\ log' = Append(log, kind)
  /\ LET n == Len(log') IN
     IF reader = "up"
     THEN /\ IF kind \in Streams THEN PushFragment(n, kind) ELSE PushBarrier(n)
          /\ UNCHANGED lost
     ELSE lost' = lost \cup {n} /\ UNCHANGED <<pending, replay, latest, committed, wire>>
  /\ UNCHANGED <<reader, everConnected, bridge, client, excused, faults>>

\* Mutant: the timer is armed for a single text only.
WindowEndsOnOne ==
  /\ Len(pending) = 1
  /\ UNCHANGED <<log, reader, everConnected, bridge, client, lost, excused, faults>>
  /\ Emit(pending) /\ pending' = <<>>

\* The timer of the coalescer.
WindowEnds ==
  /\ pending # <<>>
  /\ UNCHANGED <<log, reader, everConnected, bridge, client, lost, excused, faults>>
  /\ Emit(pending) /\ pending' = <<>>

-----------------------------------------------------------------------------
(* The bridge *)

Ready(reset) == <<[type |-> "ready", replayReset |-> reset]>>

\* Mutant: the replay begins with the frame of the cursor.
GreetingFromCursor(id, buffer, newest) ==
  LET at == {i \in DOMAIN buffer : Last(buffer[i]) = id} IN
  IF id \in {NoCursor, newest} THEN Ready(FALSE)
  ELSE IF at = {} THEN Ready(TRUE)
  ELSE Ready(FALSE) \o EventFrames(SubSeq(buffer, CHOOSE i \in at : TRUE, Len(buffer)))

\* replayAfter and what markReady sends: the frames after the cursor, or notice
\* that the buffer does not have it.
Greeting(id, buffer, newest) ==
  LET at == {i \in DOMAIN buffer : Last(buffer[i]) = id} IN
  IF id \in {NoCursor, newest} THEN Ready(FALSE)
  ELSE IF at = {} THEN Ready(TRUE)
  ELSE Ready(FALSE) \o EventFrames(SubSeq(buffer, 1 + CHOOSE i \in at : TRUE, Len(buffer)))

\* A client connects.  Without an upstream it waits; else what is pending is
\* committed to the others before the buffer is read for it.
Accept(c) ==
  /\ socket[c] = "closed"
  /\ asked' = [asked EXCEPT ![c] = cursor[c]]
  /\ UNCHANGED <<log, reader, everConnected, client, lost, excused, faults>>
  /\ IF reader = "up"
     THEN /\ Commit(pending) /\ pending' = <<>>
          /\ socket' = [socket EXCEPT ![c] = "ready"]
          /\ wire' = [d \in Clients |-> IF d = c THEN Greeting(cursor[c], replay', latest')
                                        ELSE Sent(d, pending)]
     ELSE /\ socket' = [socket EXCEPT ![c] = "waiting"]
          /\ UNCHANGED <<pending, replay, latest, committed, wire>>

\* Mutant: a reconnect is announced to nobody.
AnnouncedToNobody(c) == wire[c]

\* To a client that is ready, a reconnect of the upstream is a fresh ready; the
\* first connect after a rebind is none.
Announced(c) == IF everConnected THEN wire[c] \o Ready(FALSE) ELSE wire[c]

\* The reader connects.  Its retry delay is longer than the window of the
\* coalescer.
Connect ==
  /\ reader = "dialing" /\ pending = <<>>
  /\ reader' = "up" /\ everConnected' = TRUE
  /\ socket' = [c \in Clients |-> IF socket[c] = "waiting" THEN "ready" ELSE socket[c]]
  /\ wire' = [c \in Clients |->
                CASE socket[c] = "waiting" -> Greeting(asked[c], replay, latest)
                  [] socket[c] = "ready" -> Announced(c)
                  [] OTHER -> <<>>]
  /\ excused' = [c \in Clients |-> IF socket[c] = "ready" /\ ~everConnected
                                   THEN excused[c] \cup lost ELSE excused[c]]
  /\ UNCHANGED <<log, pending, replay, latest, committed, asked, client, lost, faults>>

\* Sockets close: a slow one, a broken one, all of them.
Closed(sockets) ==
  /\ socket' = [c \in Clients |-> IF c \in sockets THEN "closed" ELSE socket[c]]
  /\ wire' = [c \in Clients |-> IF c \in sockets THEN <<>> ELSE wire[c]]
  /\ fresh' = [c \in Clients |-> fresh[c] /\ ~(c \in sockets /\ socket[c] # "closed")]

SocketCloses(c) ==
  /\ socket[c] # "closed" /\ GoesWrong("socketCloses")
  /\ Closed({c})
  /\ UNCHANGED <<log, hub, asked, cursor, reads, got, seen, lost, excused>>

\* The upstream ends or stalls.
UpstreamBreaks ==
  /\ reader = "up" /\ GoesWrong("upstreamBreaks")
  /\ reader' = "dialing"
  /\ UNCHANGED <<log, everConnected, pending, replay, latest, committed, bridge, wire,
                 client, lost, excused>>

\* A first dial that fails closes every client.
InitialError ==
  /\ reader = "dialing" /\ ~everConnected /\ GoesWrong("initialError")
  /\ Closed(Clients)
  /\ UNCHANGED <<log, hub, asked, cursor, reads, got, seen, lost, excused>>

\* rebindUpstream: stop commits what is pending and forgets the connection.
Rebind ==
  /\ GoesWrong("rebind")
  /\ UNCHANGED <<log, bridge, client, lost, excused>>
  /\ Emit(pending) /\ pending' = <<>>
  /\ reader' = "dialing" /\ everConnected' = FALSE

\* The server process starts again, with nothing of the above.
ServerRestarts ==
  /\ GoesWrong("restart")
  /\ Closed(Clients)
  /\ reader' = "dialing" /\ everConnected' = FALSE
  /\ pending' = <<>> /\ replay' = <<>> /\ latest' = NoCursor
  /\ lost' = lost \cup Held(pending)
  /\ UNCHANGED <<log, committed, asked, cursor, reads, got, seen, excused>>

-----------------------------------------------------------------------------
(* A client *)

Unseen(c) == Happened \ seen[c]

\* What a client with this cursor has still coming: what is held back, what is
\* on its way, and what a replay from the cursor will have.
OnWire(c) == UNION {Range(frame.text) : frame \in {f \in Range(wire[c]) : f.type = "event"}}
After(id) == UNION {Range(text) : text \in {t \in Range(committed) : Last(t) > id}}
Coming(c, id) == Held(pending) \cup OnWire(c) \cup (IF id = NoCursor THEN {} ELSE After(id))
Missed(c, id) == Unseen(c) \ Coming(c, id)

\* A first connection, and one while booting, unless the replay was reset.
Skips(c, reset) == ~reset /\ (fresh[c] \/ booting[c])

\* A ready: the client asks for OpenCode's state again, unless a re-read is
\* under way: one that OpenCode has still to answer will do, but one that it
\* has answered does not have what the gap hid.  The bootstrap reads for
\* everything before it.
ReceiveReady(c, reset) ==
  LET id == IF reset THEN NoCursor ELSE cursor[c] IN
  /\ fresh' = [fresh EXCEPT ![c] = FALSE]
  /\ cursor' = [cursor EXCEPT ![c] = id]
  /\ resync' = [resync EXCEPT ![c] = IF Skips(c, reset) \/ @ = "answered" THEN @ ELSE "asked"]
  /\ excused' = [excused EXCEPT ![c] = IF bootRead[c] /\ resync'[c] # "asked"
                                       THEN @ \cup Missed(c, id) ELSE @]
  /\ UNCHANGED <<got, seen>>

ReceiveEvent(c, text) ==
  /\ cursor' = [cursor EXCEPT ![c] = Last(text)]
  /\ got' = [got EXCEPT ![c] = @ \o text]
  /\ seen' = [seen EXCEPT ![c] = @ \cup Range(text)]
  /\ UNCHANGED <<fresh, resync, excused>>

Receive(c) ==
  /\ wire[c] # <<>>
  /\ wire' = [wire EXCEPT ![c] = Tail(@)]
  /\ LET frame == Head(wire[c]) IN
     \/ frame.type = "ready" /\ ReceiveReady(c, frame.replayReset)
     \/ frame.type = "event" /\ ReceiveEvent(c, frame.text)
  /\ UNCHANGED <<log, hub, bridge, booting, bootRead, lost, faults>>

BootEnds(c) ==
  /\ booting[c] /\ ~fresh[c]
  /\ booting' = [booting EXCEPT ![c] = FALSE]
  /\ UNCHANGED <<log, hub, bridge, wire, cursor, fresh, bootRead, resync, got, seen, lost,
                 excused, faults>>

\* The bootstrap reads, before or after the first ready.
BootReads(c) ==
  /\ ~bootRead[c]
  /\ bootRead' = [bootRead EXCEPT ![c] = TRUE]
  /\ seen' = [seen EXCEPT ![c] = @ \cup Happened]
  /\ UNCHANGED <<log, hub, bridge, wire, cursor, fresh, booting, resync, got, lost,
                 excused, faults>>

\* The watchdog finds the stream or a status stale and asks for a re-read.
StaleStatus(c) ==
  /\ resync[c] = "no" /\ GoesWrong("staleStatus")
  /\ resync' = [resync EXCEPT ![c] = "asked"]
  /\ UNCHANGED <<log, hub, bridge, wire, cursor, fresh, booting, bootRead, got, seen, lost,
                 excused>>

Answered(c) ==
  /\ resync[c] = "asked"
  /\ resync' = [resync EXCEPT ![c] = "answered"]
  /\ UNCHANGED <<log, hub, bridge, wire, cursor, fresh, booting, bootRead, got, lost>>

ReadAnswered(c) ==
  /\ Answered(c)
  /\ seen' = [seen EXCEPT ![c] = @ \cup Happened]
  /\ UNCHANGED <<excused, faults>>

\* Requests of the re-read fail, or leave out sessions that are not active: it
\* has a part of what happened, and is not repeated.  The rest comes with the
\* stream or, to a client that will connect again, with the replay.
ReadFails(c) ==
  /\ GoesWrong("readFails")
  /\ Answered(c)
  /\ \E part \in SUBSET Unseen(c) :
       /\ seen' = [seen EXCEPT ![c] = @ \cup part]
       /\ excused' = [excused EXCEPT ![c] =
            IF bootRead[c]
            THEN @ \cup (Missed(c, IF socket[c] = "ready" THEN NoCursor ELSE cursor[c]) \ part)
            ELSE @]

\* The last of its requests has ended.
ReadEnds(c) ==
  /\ resync[c] = "answered"
  /\ resync' = [resync EXCEPT ![c] = "no"]
  /\ UNCHANGED <<log, hub, bridge, wire, cursor, fresh, booting, bootRead, got, seen, lost,
                 excused, faults>>

-----------------------------------------------------------------------------
Next ==
  \/ \E kind \in Kinds : Produce(kind)
  \/ WindowEnds \/ Connect \/ UpstreamBreaks \/ InitialError \/ Rebind \/ ServerRestarts
  \/ \E c \in Clients :
       \/ Accept(c) \/ SocketCloses(c) \/ Receive(c)
       \/ BootEnds(c) \/ BootReads(c)
       \/ StaleStatus(c) \/ ReadAnswered(c) \/ ReadFails(c) \/ ReadEnds(c)

Spec == Init /\ [][Next]_vars

\* The timer of the coalescer fires, the reader and the clients dial again, and
\* what was sent or asked arrives.
Fairness ==
  /\ WF_vars(WindowEnds) /\ WF_vars(Connect)
  /\ \A c \in Clients :
       /\ WF_vars(Accept(c)) /\ WF_vars(Receive(c))
       /\ WF_vars(BootReads(c)) /\ WF_vars(ReadAnswered(c)) /\ WF_vars(ReadEnds(c))

LiveSpec == Spec /\ Fairness

-----------------------------------------------------------------------------
(* Properties *)

\* The texts in the order of their commits.
Frozen == committed \o pending

\* Coalescing is lossless and keeps every order that matters: what was pushed
\* is committed or held back exactly once, in the order of its stream, and only
\* fragments of different streams with nothing else between them change places.
OrderKept ==
  /\ Happened \subseteq Held(Frozen) \cup lost
  /\ \A i, j \in DOMAIN Frozen : \A k \in DOMAIN Frozen[i], m \in DOMAIN Frozen[j] :
       i < j \/ (i = j /\ k < m) =>
         LET earlier == Frozen[i][k] later == Frozen[j][m] IN
         \/ earlier < later
         \/ /\ earlier > later /\ log[earlier] # log[later]
            /\ \A n \in later .. earlier : n \in lost \/ log[n] \in Streams

\* The ids of committed frames grow, so a cursor has one place.
IdsGrow == \A i, j \in DOMAIN committed : i < j => Last(committed[i]) < Last(committed[j])

\* The buffer holds the latest frames without a hole.
ReplayContiguous == IsSuffix(replay, committed)

\* Whatever closes and resumes, no event is sent to a client twice.
ExactlyOnce == \A c \in Clients : IsInjective(got[c])

CaughtUp(c) ==
  /\ socket[c] = "ready" /\ wire[c] = <<>> /\ reader = "up" /\ pending = <<>>
  /\ bootRead[c] /\ resync[c] = "no"

\* A client that is connected, with nothing on its way, has got or read every
\* event, except those it is known to miss: what the upstream lost while it was
\* booting, or in a rebind.
NoSilentGap == \A c \in Clients : CaughtUp(c) => Unseen(c) \subseteq excused[c]

\* Every event reaches every client in the end: again and again a client has
\* got or read all that happened.
EventuallySeen == \A c \in Clients : []<>(Unseen(c) \subseteq excused[c])
=============================================================================
