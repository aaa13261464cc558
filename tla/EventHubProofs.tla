--------------------------- MODULE EventHubProofs ---------------------------
(***************************************************************************)
(* Theorems about EventHub, for any clients, streams, limits and bounds:   *)
(* fragments are merged without loss, the replay has no hole, and a client *)
(* gets every event once, reads it, or is excused by name.                 *)
(***************************************************************************)
EXTENDS EventHub, FiniteSetTheorems, SequenceTheorems, WellFoundedInduction, TLAPS

-----------------------------------------------------------------------------
(* Sequences *)

\* A set of naturals has a least element.
LEMMA MinIn ==
  ASSUME NEW S \in SUBSET Nat, S # {}
  PROVE  Min(S) \in S
<1> DEFINE less == {p \in Nat \X Nat : p[1] < p[2]}
<1>1. IsWellFoundedOn(less, Nat)
  BY NatLessThanWellFounded DEF OpToRel
<1> HIDE DEF less
<1>2. PICK e \in S : \A f \in S : ~ (<<f, e>> \in less)
  BY <1>1, WFMin
<1>3. \A f \in S : ~ (f < e)
  BY <1>2 DEF less
<1>4. \A f \in S : e =< f
  BY <1>3
<1> QED
  BY <1>4 DEF Min

\* The end of a sequence, from some place on.
LEMMA EndOf ==
  ASSUME NEW S, NEW s \in Seq(S), NEW k \in 1 .. Len(s) + 1
  PROVE  /\ SubSeq(s, k, Len(s)) \in Seq(S)
         /\ Len(SubSeq(s, k, Len(s))) = Len(s) + 1 - k
         /\ \A i \in 1 .. Len(s) + 1 - k : SubSeq(s, k, Len(s))[i] = s[k + i - 1]
<1>1. \A i \in k .. Len(s) : s[i] \in S
  OBVIOUS
<1>2. k \in Int /\ Len(s) \in Int /\ Len(s) \in Nat
  OBVIOUS
<1>3. /\ SubSeq(s, k, Len(s)) \in Seq(S)
      /\ Len(SubSeq(s, k, Len(s))) = IF k <= Len(s) THEN Len(s) - k + 1 ELSE 0
      /\ \A i \in 1 .. Len(s) - k + 1 : SubSeq(s, k, Len(s))[i] = s[k + i - 1]
  BY <1>1, <1>2, SubSeqProperties
<1> QED
  BY <1>2, <1>3

\* A sequence without its i-th element.
LEMMA Without ==
  ASSUME NEW S, NEW s \in Seq(S), NEW i \in DOMAIN s
  PROVE  /\ RemoveAt(s, i) \in Seq(S)
         /\ Len(RemoveAt(s, i)) = Len(s) - 1
         /\ \A j \in 1 .. Len(s) - 1 :
              RemoveAt(s, i)[j] = IF j < i THEN s[j] ELSE s[j + 1]
<1> DEFINE front == SubSeq(s, 1, i - 1)
           back  == SubSeq(s, i + 1, Len(s))
<1>1. i \in 1 .. Len(s) /\ Len(s) \in Nat
  OBVIOUS
<1>2. /\ front \in Seq(S) /\ Len(front) = i - 1
      /\ \A j \in 1 .. i - 1 : front[j] = s[j]
  <2>1. \A j \in 1 .. i - 1 : s[j] \in S
    BY <1>1
  <2> QED
    BY <1>1, <2>1, SubSeqProperties
<1>3. /\ back \in Seq(S) /\ Len(back) = Len(s) - i
      /\ \A j \in 1 .. Len(s) - i : back[j] = s[i + j]
  <2>1. i + 1 \in 1 .. Len(s) + 1
    BY <1>1
  <2>2. /\ back \in Seq(S) /\ Len(back) = Len(s) + 1 - (i + 1)
        /\ \A j \in 1 .. Len(s) + 1 - (i + 1) : back[j] = s[i + 1 + j - 1]
    BY <2>1, EndOf
  <2> QED
    BY <1>1, <2>2
<1> HIDE DEF front, back
<1>4. /\ front \o back \in Seq(S) /\ Len(front \o back) = Len(s) - 1
      /\ \A j \in 1 .. Len(s) - 1 :
           (front \o back)[j] = IF j < i THEN s[j] ELSE s[j + 1]
  <2>1. /\ front \o back \in Seq(S) /\ Len(front \o back) = Len(front) + Len(back)
        /\ \A j \in 1 .. Len(front) + Len(back) :
             (front \o back)[j] = IF j <= Len(front) THEN front[j] ELSE back[j - Len(front)]
    BY <1>2, <1>3, ConcatProperties
  <2>2. ASSUME NEW j \in 1 .. Len(s) - 1
        PROVE  (front \o back)[j] = IF j < i THEN s[j] ELSE s[j + 1]
    <3>1. CASE j < i
      BY <1>1, <1>2, <1>3, <2>1, <3>1
    <3>2. CASE ~ (j < i)
      <4>1. /\ j - (i - 1) \in 1 .. Len(s) - i /\ i + (j - (i - 1)) = j + 1
            /\ j \in 1 .. (i - 1) + (Len(s) - i) /\ ~ (j <= i - 1)
        BY <1>1, <3>2
      <4>2. back[j - (i - 1)] = s[j + 1]
        BY <1>3, <4>1
      <4>3. (front \o back)[j] = back[j - (i - 1)]
        BY <1>2, <1>3, <2>1, <4>1
      <4> QED
        BY <3>2, <4>2, <4>3
    <3> QED
      BY <3>1, <3>2
  <2> QED
    BY <1>1, <1>2, <1>3, <2>1, <2>2
<1> QED
  BY <1>4 DEF RemoveAt, front, back

\* Two sequences, one after the other.
LEMMA Joined ==
  ASSUME NEW S, NEW s \in Seq(S), NEW t \in Seq(S)
  PROVE  /\ s \o t \in Seq(S) /\ Len(s \o t) = Len(s) + Len(t)
         /\ \A i \in DOMAIN s : i \in DOMAIN (s \o t) /\ (s \o t)[i] = s[i]
         /\ \A i \in DOMAIN t : Len(s) + i \in DOMAIN (s \o t) /\ (s \o t)[Len(s) + i] = t[i]
         /\ \A i \in DOMAIN (s \o t) : i \in DOMAIN s \/ (i > Len(s) /\ i - Len(s) \in DOMAIN t)
OBVIOUS

-----------------------------------------------------------------------------
(* Types *)

\* The end of what was retained and what is committed, within the limit.
LEMMA RetainedEnd ==
  ASSUME NEW buffer \in Seq(Texts), NEW texts \in Seq(Texts)
  PROVE  \E k \in 1 .. Len(buffer \o texts) + 1 :
           /\ Retained(buffer, texts) = SubSeq(buffer \o texts, k, Len(buffer \o texts))
           /\ Len(buffer \o texts) < k + REPLAY_LIMIT
<1> DEFINE all == buffer \o texts
           starts == {k \in 1 .. Len(all) + 1 : /\ Len(all) < k + REPLAY_LIMIT
                                               /\ \A i \in k .. Len(all) : ~IsHuge(all[i])}
<1>1. Len(all) \in Nat /\ REPLAY_LIMIT \in Nat
  BY HubBounds
<1>2. Retained(buffer, texts) = SubSeq(all, Min(starts), Len(all))
  BY DEF Retained
<1> HIDE DEF all
<1>3. Len(all) + 1 \in starts
  BY <1>1
<1>4. starts \in SUBSET Nat
  BY <1>1
<1>5. Min(starts) \in starts
  BY <1>3, <1>4, MinIn
<1> QED
  BY <1>2, <1>5 DEF all

\* What is retained is texts, no more of them than the limit.
LEMMA RetainedType ==
  ASSUME NEW buffer \in Seq(Texts), NEW texts \in Seq(Texts)
  PROVE  Retained(buffer, texts) \in Seq(Texts) /\ Len(Retained(buffer, texts)) <= REPLAY_LIMIT
<1>1. PICK k \in 1 .. Len(buffer \o texts) + 1 :
        /\ Retained(buffer, texts) = SubSeq(buffer \o texts, k, Len(buffer \o texts))
        /\ Len(buffer \o texts) < k + REPLAY_LIMIT
  BY RetainedEnd
<1>2. buffer \o texts \in Seq(Texts)
  OBVIOUS
<1>3. /\ SubSeq(buffer \o texts, k, Len(buffer \o texts)) \in Seq(Texts)
      /\ Len(SubSeq(buffer \o texts, k, Len(buffer \o texts))) = Len(buffer \o texts) + 1 - k
  BY <1>2, EndOf
<1> QED
  BY <1>1, <1>2, <1>3, HubBounds

\* The last element of a sequence.
LEMMA LastOf ==
  ASSUME NEW S, NEW s \in Seq(S), s # <<>>
  PROVE  Last(s) \in S /\ Len(s) \in DOMAIN s /\ Last(s) \in Range(s)
BY DEF Last, Range

\* The parts of the type invariant.
LEMMA TypeParts ==
  TypeOK => /\ log \in Seq(Kinds) /\ Len(log) \in 0 .. MaxEvents /\ Happened \subseteq Events
            /\ pending \in Seq(Texts) /\ replay \in Seq(Texts) /\ committed \in Seq(Texts)
            /\ latest \in Events \cup {NoCursor}
            /\ wire \in [Clients -> Seq(Frames)] /\ cursor \in [Clients -> Events \cup {NoCursor}]
            /\ asked \in [Clients -> Events \cup {NoCursor}]
            /\ socket \in [Clients -> {"closed", "waiting", "ready"}]
            /\ got \in [Clients -> Seq(Events)]
            /\ lost \subseteq Events
            /\ seen \in [Clients -> SUBSET Events] /\ excused \in [Clients -> SUBSET Events]
            /\ fresh \in [Clients -> BOOLEAN] /\ booting \in [Clients -> BOOLEAN]
            /\ bootRead \in [Clients -> BOOLEAN]
            /\ resync \in [Clients -> {"no", "asked", "answered"}]
BY HubBounds DEF TypeOK, Happened, Events

\* The frames a connection may be sent.
LEMMA FrameTypes ==
  /\ \A text \in Texts : [type |-> "event", text |-> text] \in Frames
  /\ \A reset \in BOOLEAN : Ready(reset) \in Seq(Frames)
  /\ \A frame \in Frames : \/ frame.type = "event" /\ frame.text \in Texts
                           \/ frame.type = "ready" /\ frame.replayReset \in BOOLEAN
BY DEF Frames, Ready

\* The frames of texts.
LEMMA EventFramesType ==
  ASSUME NEW texts \in Seq(Texts)
  PROVE  /\ EventFrames(texts) \in Seq(Frames) /\ Len(EventFrames(texts)) = Len(texts)
         /\ DOMAIN EventFrames(texts) = DOMAIN texts
         /\ \A i \in DOMAIN texts : EventFrames(texts)[i] = [type |-> "event", text |-> texts[i]]
<1>1. \A i \in 1 .. Len(texts) : [type |-> "event", text |-> texts[i]] \in Frames
  BY FrameTypes
<1> DEFINE f == [i \in 1 .. Len(texts) |-> [type |-> "event", text |-> texts[i]]]
<1>2. f \in [1 .. Len(texts) -> Frames]
  BY <1>1
<1>3. f \in Seq(Frames) /\ Len(f) = Len(texts) /\ DOMAIN f = 1 .. Len(texts)
  BY <1>2
<1> QED
  BY <1>3 DEF EventFrames

\* What is on the way to a client when texts are sent.
LEMMA SentType ==
  ASSUME TypeOK, NEW texts \in Seq(Texts), NEW c \in Clients
  PROVE  Sent(c, texts) \in Seq(Frames)
<1>1. EventFrames(texts) \in Seq(Frames) /\ wire[c] \in Seq(Frames)
  BY EventFramesType, TypeParts
<1> QED
  BY <1>1 DEF Sent

\* Committing texts keeps the types.
LEMMA CommitType ==
  ASSUME TypeOK, NEW texts \in Seq(Texts), Commit(texts)
  PROVE  /\ replay' \in Seq(Texts) /\ Len(replay') <= REPLAY_LIMIT
         /\ committed' \in Seq(Texts) /\ latest' \in Events \cup {NoCursor}
<1>1. replay \in Seq(Texts) /\ committed \in Seq(Texts) /\ latest \in Events \cup {NoCursor}
  BY TypeParts
<1>2. replay' \in Seq(Texts) /\ Len(replay') <= REPLAY_LIMIT
  BY <1>1, RetainedType DEF Commit
<1>3. committed' \in Seq(Texts)
  BY <1>1 DEF Commit
<1>4. texts # <<>> => Last(Last(texts)) \in Events
  <2>1. texts # <<>> => Last(texts) \in Texts
    BY LastOf
  <2> QED
    BY <2>1, LastOf DEF Texts
<1> QED
  BY <1>1, <1>2, <1>3, <1>4 DEF Commit

\* So does sending them.
LEMMA EmitType ==
  ASSUME TypeOK, NEW texts \in Seq(Texts), Emit(texts)
  PROVE  /\ replay' \in Seq(Texts) /\ Len(replay') <= REPLAY_LIMIT
         /\ committed' \in Seq(Texts) /\ latest' \in Events \cup {NoCursor}
         /\ wire' \in [Clients -> Seq(Frames)]
<1>1. Commit(texts) /\ wire' = [c \in Clients |-> Sent(c, texts)]
  BY DEF Emit
<1> QED
  BY <1>1, CommitType, SentType

\* What the buffer has for a cursor.
LEMMA GreetingType ==
  ASSUME NEW id, NEW buffer \in Seq(Texts), NEW newest
  PROVE  Greeting(id, buffer, newest) \in Seq(Frames)
<1> DEFINE at == {i \in DOMAIN buffer : Last(buffer[i]) = id}
           rest(i) == SubSeq(buffer, 1 + i, Len(buffer))
<1>1. Ready(TRUE) \in Seq(Frames) /\ Ready(FALSE) \in Seq(Frames)
  BY FrameTypes
<1>2. ASSUME NEW i \in DOMAIN buffer
      PROVE  Ready(FALSE) \o EventFrames(rest(i)) \in Seq(Frames)
  <2>1. 1 + i \in 1 .. Len(buffer) + 1
    OBVIOUS
  <2>2. rest(i) \in Seq(Texts)
    BY <2>1, EndOf
  <2> HIDE DEF rest
  <2>3. EventFrames(rest(i)) \in Seq(Frames)
    BY <2>2, EventFramesType
  <2> QED
    BY <1>1, <2>3, ConcatProperties
<1>3. at # {} => (CHOOSE i \in at : TRUE) \in DOMAIN buffer
  OBVIOUS
<1> QED
  BY <1>1, <1>2, <1>3 DEF Greeting

\* A fragment joins the text of its stream, or begins one.
LEMMA MergedCases ==
  ASSUME NEW n, NEW stream
  PROVE  \/ /\ \A i \in DOMAIN pending : ~Mine(pending[i], stream)
            /\ Merged(n, stream) = Append(pending, <<n>>)
         \/ \E i \in DOMAIN pending :
              /\ Mine(pending[i], stream)
              /\ Merged(n, stream) = Append(RemoveAt(pending, i), Append(pending[i], n))
BY DEF Merged

\* Merging a fragment into the pending texts.
LEMMA MergedType ==
  ASSUME TypeOK, NEW n \in Events, NEW stream
  PROVE  Merged(n, stream) \in Seq(Texts) /\ Merged(n, stream) # <<>>
<1>1. pending \in Seq(Texts)
  BY TypeParts
<1>2. <<n>> \in Texts
  BY DEF Texts
<1>3. ASSUME NEW i \in DOMAIN pending
      PROVE  /\ Append(RemoveAt(pending, i), Append(pending[i], n)) \in Seq(Texts)
             /\ Append(RemoveAt(pending, i), Append(pending[i], n)) # <<>>
  <2>1. pending[i] \in Seq(Events)
    BY <1>1 DEF Texts
  <2>2. Append(pending[i], n) \in Seq(Events) /\ Append(pending[i], n) # <<>>
    BY <2>1
  <2>3. Append(pending[i], n) \in Texts
    BY <2>2 DEF Texts
  <2>4. RemoveAt(pending, i) \in Seq(Texts)
    BY <1>1, Without
  <2> QED
    BY <2>3, <2>4
<1>4. Append(pending, <<n>>) \in Seq(Texts) /\ Append(pending, <<n>>) # <<>>
  BY <1>1, <1>2, AppendProperties
<1>5. CASE Merged(n, stream) = Append(pending, <<n>>)
  BY <1>4, <1>5
<1>6. CASE \E i \in DOMAIN pending :
             Merged(n, stream) = Append(RemoveAt(pending, i), Append(pending[i], n))
  BY <1>3, <1>6
<1> QED
  BY <1>5, <1>6, MergedCases

\* An empty window holds nothing.
LEMMA NothingHeld == Held(<<>>) = {} /\ Cardinality(Held(<<>>)) < PENDING_LIMIT
BY HubBounds, FS_EmptySet DEF Held

\* The number of the event that is produced.
LEMMA NextEvent ==
  ASSUME TypeOK, Len(log) < MaxEvents, NEW kind \in Kinds, log' = Append(log, kind)
  PROVE  /\ log' \in Seq(Kinds) /\ Len(log') = Len(log) + 1 /\ Len(log') \in Events
         /\ Len(log') <= MaxEvents /\ log'[Len(log')] = kind
         /\ \A n \in Happened : log'[n] = log[n]
         /\ Happened' = Happened \cup {Len(log')} /\ Len(log') \notin Happened
BY HubBounds, TypeParts DEF Events, Happened

\* An event arrives from OpenCode.
LEMMA ProduceType ==
  ASSUME TypeOK, NEW kind \in Kinds, Produce(kind)
  PROVE  TypeOK'
<1> DEFINE n == Len(log')
<1>1. Len(log) < MaxEvents /\ log' = Append(log, kind)
  BY DEF Produce
<1>2. log' \in Seq(Kinds) /\ n \in Events /\ Len(log') <= MaxEvents
  BY <1>1, NextEvent
<1> HIDE DEF n
<1>3. <<<<n>>>> \in Seq(Texts) /\ pending \in Seq(Texts) /\ Append(pending, <<n>>) \in Seq(Texts)
  BY <1>2, TypeParts DEF Texts
<1>4. /\ pending' \in Seq(Texts) /\ Cardinality(Held(pending')) < PENDING_LIMIT
      /\ replay' \in Seq(Texts) /\ Len(replay') <= REPLAY_LIMIT
      /\ committed' \in Seq(Texts) /\ latest' \in Events \cup {NoCursor}
      /\ wire' \in [Clients -> Seq(Frames)] /\ lost' \subseteq Events
  <2>1. CASE reader = "up" /\ kind \in Streams
    <3>1. PushFragment(n, kind) /\ lost' = lost
      BY <2>1 DEF Produce, n
    <3>2. CASE pending = <<>> /\ Emit(<<<<n>>>>) /\ UNCHANGED pending
      BY <1>3, <3>1, <3>2, EmitType, NothingHeld, TypeParts
    <3>3. CASE Emit(Merged(n, kind)) /\ pending' = <<>>
      <4>1. Merged(n, kind) \in Seq(Texts) /\ <<>> \in Seq(Texts)
        BY <1>2, MergedType
      <4> QED
        BY <3>1, <3>3, <4>1, EmitType, NothingHeld, TypeParts
    <3>4. CASE /\ ~(Cardinality(Held(Merged(n, kind))) >= PENDING_LIMIT)
               /\ pending' = Merged(n, kind) /\ UNCHANGED <<replay, latest, committed, wire>>
      <4>1. Merged(n, kind) \in Seq(Texts)
        BY <1>2, MergedType
      <4>2. Cardinality(Held(pending')) < PENDING_LIMIT
        <5>1. Held(Merged(n, kind)) \in SUBSET Events
          BY <4>1, TypeParts DEF Held, Texts, Range
        <5>2. IsFiniteSet(Events) /\ MaxEvents \in Nat
          BY HubBounds, FS_Interval DEF Events
        <5>3. IsFiniteSet(Held(Merged(n, kind)))
          BY <5>1, <5>2, FS_Subset
        <5>4. Cardinality(Held(Merged(n, kind))) \in Nat
          BY <5>3, FS_CardinalityType
        <5> QED
          BY <3>4, <5>4, HubBounds
      <4> QED
        BY <3>1, <3>4, <4>1, <4>2, TypeParts DEF TypeOK
    <3> QED
      BY <3>1, <3>2, <3>3, <3>4 DEF PushFragment
  <2>2. CASE reader = "up" /\ kind \notin Streams
    <3>1. Emit(Append(pending, <<n>>)) /\ pending' = <<>> /\ lost' = lost
      BY <2>2 DEF Produce, PushBarrier, n
    <3>2. /\ replay' \in Seq(Texts) /\ Len(replay') <= REPLAY_LIMIT
          /\ committed' \in Seq(Texts) /\ latest' \in Events \cup {NoCursor}
          /\ wire' \in [Clients -> Seq(Frames)]
      BY <1>3, <3>1, EmitType
    <3>3. pending' \in Seq(Texts) /\ Cardinality(Held(pending')) < PENDING_LIMIT
      BY <3>1, NothingHeld
    <3> QED
      BY <3>1, <3>2, <3>3, TypeParts
  <2>3. CASE reader # "up"
    BY <1>2, <2>3 DEF Produce, TypeOK, n
  <2> QED
    BY <2>1, <2>2, <2>3
<1>5. UNCHANGED <<reader, everConnected, bridge, client, excused, faults>>
  BY DEF Produce
<1> QED
  BY <1>2, <1>4, <1>5 DEF TypeOK, bridge, client

\* The emission of what is pending, with the rest of what the hub is.
LEMMA FlushType ==
  ASSUME TypeOK, Emit(pending), pending' = <<>>,
         reader' \in {"dialing", "up"}, everConnected' \in BOOLEAN, faults' \in 0 .. MaxFaults,
         UNCHANGED <<log, bridge, client, lost, excused>>
  PROVE  TypeOK'
<1>1. pending \in Seq(Texts)
  BY TypeParts
<1>2. /\ replay' \in Seq(Texts) /\ Len(replay') <= REPLAY_LIMIT
      /\ committed' \in Seq(Texts) /\ latest' \in Events \cup {NoCursor}
      /\ wire' \in [Clients -> Seq(Frames)]
  BY <1>1, EmitType
<1>3. pending' \in Seq(Texts) /\ Cardinality(Held(pending')) < PENDING_LIMIT
  BY NothingHeld
<1> QED
  BY <1>2, <1>3 DEF TypeOK, bridge, client

\* A step that goes wrong is one more fault, within the bound.
LEMMA FaultType ==
  ASSUME TypeOK, NEW behaviour, GoesWrong(behaviour)
  PROVE  faults' \in 0 .. MaxFaults
BY HubBounds DEF GoesWrong, TypeOK

\* A socket is accepted, and greeted with what it missed.
LEMMA AcceptType ==
  ASSUME TypeOK, NEW c \in Clients, Accept(c)
  PROVE  TypeOK'
<1>1. asked' \in [Clients -> Events \cup {NoCursor}]
  <2>1. asked' = [asked EXCEPT ![c] = cursor[c]]
    BY DEF Accept
  <2> QED
    BY <2>1, TypeParts
<1>2. UNCHANGED <<log, reader, everConnected, client, lost, excused, faults>>
  BY DEF Accept
<1>3. CASE reader = "up"
  <2>1. /\ Commit(pending) /\ pending' = <<>> /\ socket' = [socket EXCEPT ![c] = "ready"]
        /\ wire' = [d \in Clients |-> IF d = c THEN Greeting(cursor[c], replay', latest')
                                      ELSE Sent(d, pending)]
    BY <1>3 DEF Accept
  <2>2. pending \in Seq(Texts)
    BY TypeParts
  <2>3. /\ replay' \in Seq(Texts) /\ Len(replay') <= REPLAY_LIMIT
        /\ committed' \in Seq(Texts) /\ latest' \in Events \cup {NoCursor}
    BY <2>1, <2>2, CommitType
  <2>4. \A d \in Clients : Sent(d, pending) \in Seq(Frames)
    BY <2>2, SentType
  <2>5. wire' \in [Clients -> Seq(Frames)]
    BY <2>1, <2>3, <2>4, GreetingType
  <2>6. pending' \in Seq(Texts) /\ Cardinality(Held(pending')) < PENDING_LIMIT
    BY <2>1, NothingHeld
  <2>7. socket' \in [Clients -> {"closed", "waiting", "ready"}]
    BY <2>1, TypeParts
  <2> QED
    BY <1>1, <1>2, <2>3, <2>5, <2>6, <2>7 DEF TypeOK, client
<1>4. CASE reader # "up"
  <2>1. /\ socket' = [socket EXCEPT ![c] = "waiting"]
        /\ UNCHANGED <<pending, replay, latest, committed, wire>>
    BY <1>4 DEF Accept
  <2>2. socket' \in [Clients -> {"closed", "waiting", "ready"}]
    BY <2>1, TypeParts
  <2> QED
    BY <1>1, <1>2, <2>1, <2>2 DEF TypeOK, client
<1> QED
  BY <1>3, <1>4

\* The reader connects.
LEMMA ConnectType ==
  ASSUME TypeOK, Connect
  PROVE  TypeOK'
<1>1. socket' \in [Clients -> {"closed", "waiting", "ready"}]
  <2>1. socket' = [c \in Clients |-> IF socket[c] = "waiting" THEN "ready" ELSE socket[c]]
    BY DEF Connect
  <2> QED
    BY <2>1, TypeParts
<1>2. wire' \in [Clients -> Seq(Frames)]
  <2>1. wire' = [c \in Clients |->
                   CASE socket[c] = "waiting" -> Greeting(asked[c], replay, latest)
                     [] socket[c] = "ready" -> Announced(c)
                     [] OTHER -> <<>>]
    BY DEF Connect
  <2>2. ASSUME NEW c \in Clients
        PROVE  wire'[c] \in Seq(Frames)
    <3>1. Greeting(asked[c], replay, latest) \in Seq(Frames)
      BY GreetingType, TypeParts
    <3>2. Announced(c) \in Seq(Frames)
      <4>1. wire[c] \in Seq(Frames) /\ Ready(FALSE) \in Seq(Frames)
        BY FrameTypes, TypeParts
      <4>2. wire[c] \o Ready(FALSE) \in Seq(Frames)
        BY <4>1, ConcatProperties
      <4> QED
        BY <4>1, <4>2 DEF Announced
    <3>3. <<>> \in Seq(Frames)
      OBVIOUS
    <3> QED
      BY <2>1, <3>1, <3>2, <3>3
  <2>3. \E f : wire' = [c \in Clients |-> f[c]]
    <3> WITNESS wire'
    <3> QED
      BY <2>1
  <2> QED
    BY <2>2, <2>3
<1>3. excused' \in [Clients -> SUBSET Events]
  <2>1. excused' = [c \in Clients |-> IF socket[c] = "ready" /\ ~everConnected
                                      THEN excused[c] \cup lost ELSE excused[c]]
    BY DEF Connect
  <2> QED
    BY <2>1, TypeParts
<1>4. /\ reader' = "up" /\ everConnected' = TRUE
      /\ UNCHANGED <<log, pending, replay, latest, committed, asked, client, lost, faults>>
  BY DEF Connect
<1> QED
  BY <1>1, <1>2, <1>3, <1>4 DEF TypeOK, client

\* Sockets close.
LEMMA ClosedType ==
  ASSUME TypeOK, NEW sockets, Closed(sockets)
  PROVE  /\ socket' \in [Clients -> {"closed", "waiting", "ready"}]
         /\ wire' \in [Clients -> Seq(Frames)] /\ fresh' \in [Clients -> BOOLEAN]
<1>1. /\ socket' = [c \in Clients |-> IF c \in sockets THEN "closed" ELSE socket[c]]
      /\ wire' = [c \in Clients |-> IF c \in sockets THEN <<>> ELSE wire[c]]
      /\ fresh' = [c \in Clients |-> fresh[c] /\ ~(c \in sockets /\ socket[c] # "closed")]
  BY DEF Closed
<1>2. <<>> \in Seq(Frames)
  OBVIOUS
<1>3. \A c \in Clients : (fresh[c] /\ ~(c \in sockets /\ socket[c] # "closed")) \in BOOLEAN
  OBVIOUS
<1> QED
  BY <1>1, <1>2, <1>3, TypeParts

\* A client handles the frame at the head of its connection.
LEMMA ReceiveType ==
  ASSUME TypeOK, NEW c \in Clients, Receive(c)
  PROVE  TypeOK'
<1>1. wire[c] # <<>> /\ wire[c] \in Seq(Frames) /\ wire' = [wire EXCEPT ![c] = Tail(@)]
  BY TypeParts DEF Receive
<1>2. wire' \in [Clients -> Seq(Frames)]
  <2>1. Tail(wire[c]) \in Seq(Frames)
    BY <1>1
  <2> QED
    BY <1>1, <2>1, TypeParts
<1>3. Head(wire[c]) \in Frames
  BY <1>1
<1>4. UNCHANGED <<log, hub, bridge, booting, bootRead, lost, faults>>
  BY DEF Receive
<1>5. /\ cursor' \in [Clients -> Events \cup {NoCursor}] /\ fresh' \in [Clients -> BOOLEAN]
      /\ got' \in [Clients -> Seq(Events)] /\ seen' \in [Clients -> SUBSET Events]
      /\ excused' \in [Clients -> SUBSET Events]
      /\ resync' \in [Clients -> {"no", "asked", "answered"}]
  <2>1. CASE Head(wire[c]).type = "ready" /\ ReceiveReady(c, Head(wire[c]).replayReset)
    <3>1. Unseen(c) \subseteq Events /\ Happened \subseteq Events
      BY TypeParts DEF Unseen
    <3>2. ReceiveReady(c, Head(wire[c]).replayReset) /\ Head(wire[c]).replayReset \in BOOLEAN
      BY <1>3, <2>1, FrameTypes
    <3> DEFINE reset == Head(wire[c]).replayReset
    <3>3. ReceiveReady(c, reset)
      BY <3>2
    <3> HIDE DEF reset
    <3>4. /\ cursor' \in [Clients -> Events \cup {NoCursor}] /\ fresh' \in [Clients -> BOOLEAN]
          /\ got' \in [Clients -> Seq(Events)]
      BY ONLY <3>3, TypeParts, TypeOK DEF ReceiveReady
    <3>5. /\ seen' \in [Clients -> SUBSET Events]
          /\ resync' \in [Clients -> {"no", "asked", "answered"}]
      BY ONLY <3>1, <3>3, TypeParts, TypeOK DEF ReceiveReady
    <3>6. excused' \in [Clients -> SUBSET Events]
      <4> DEFINE id == IF reset THEN NoCursor ELSE cursor[c]
                 more == Missed(c, id)
      <4>1. \/ excused' = [excused EXCEPT ![c] = @ \cup more]
            \/ excused' = [excused EXCEPT ![c] = @]
        BY ONLY <3>3 DEF ReceiveReady
      <4>2. more \subseteq Events
        BY <3>1 DEF Missed
      <4> HIDE DEF more
      <4>3. excused \in [Clients -> SUBSET Events]
        BY TypeParts
      <4> QED
        BY ONLY <4>1, <4>2, <4>3
    <3> QED
      BY <3>4, <3>5, <3>6
  <2>2. CASE Head(wire[c]).type = "event" /\ ReceiveEvent(c, Head(wire[c]).text)
    <3> DEFINE text == Head(wire[c]).text
    <3>1. text \in Texts
      BY <1>3, <2>2, FrameTypes
    <3> HIDE DEF text
    <3>2. text \in Seq(Events) /\ Last(text) \in Events /\ Range(text) \subseteq Events
      BY <3>1, LastOf DEF Texts, Range
    <3>3. /\ cursor' = [cursor EXCEPT ![c] = Last(text)] /\ got' = [got EXCEPT ![c] = @ \o text]
          /\ seen' = [seen EXCEPT ![c] = @ \cup Range(text)]
          /\ UNCHANGED <<fresh, resync, excused>>
      BY <2>2 DEF ReceiveEvent, text
    <3>4. got[c] \o text \in Seq(Events)
      BY <3>2, TypeParts, ConcatProperties
    <3> QED
      BY <3>2, <3>3, <3>4, TypeParts
  <2> QED
    BY <2>1, <2>2 DEF Receive
<1> QED
  BY <1>2, <1>4, <1>5 DEF TypeOK, hub, bridge

\* What a client does by itself.
Alone(c) ==
  \/ BootEnds(c) \/ BootReads(c)
  \/ StaleStatus(c) \/ ReadAnswered(c) \/ ReadFails(c) \/ ReadEnds(c)

\* It leaves the hub, the bridge and its cursor alone.
LEMMA AloneKeeps ==
  ASSUME NEW c \in Clients, Alone(c)
  PROVE  UNCHANGED <<log, hub, bridge, wire, cursor, fresh, got, lost>>
BY DEF Alone, BootEnds, BootReads, StaleStatus, Answered, ReadAnswered, ReadFails, ReadEnds

\* What a client does by itself keeps the types.
LEMMA AloneType ==
  ASSUME TypeOK, NEW c \in Clients, Alone(c)
  PROVE  TypeOK'
<1>1. UNCHANGED <<log, hub, bridge, wire, cursor, fresh, got, lost>>
  BY AloneKeeps
<1>2. /\ booting' \in [Clients -> BOOLEAN] /\ bootRead' \in [Clients -> BOOLEAN]
      /\ resync' \in [Clients -> {"no", "asked", "answered"}]
  BY TypeParts DEF Alone, BootEnds, BootReads, StaleStatus, Answered, ReadAnswered, ReadFails,
                   ReadEnds
<1>3. faults' \in 0 .. MaxFaults
  <2>1. faults \in 0 .. MaxFaults
    BY DEF TypeOK
  <2> QED
    BY <2>1, FaultType DEF Alone, BootEnds, BootReads, StaleStatus, ReadAnswered, ReadFails,
                           ReadEnds
<1>4. seen \in [Clients -> SUBSET Events] /\ excused \in [Clients -> SUBSET Events]
      /\ Happened \subseteq Events
  BY TypeParts
<1>5. seen' \in [Clients -> SUBSET Events] /\ excused' \in [Clients -> SUBSET Events]
  <2>1. CASE ReadFails(c)
    <3> DEFINE more == Missed(c, IF socket[c] = "ready" THEN NoCursor ELSE cursor[c])
    <3>1. PICK part \in SUBSET Unseen(c) :
            /\ seen' = [seen EXCEPT ![c] = @ \cup part]
            /\ \/ excused' = [excused EXCEPT ![c] = @ \cup (more \ part)]
               \/ excused' = [excused EXCEPT ![c] = @]
      BY <2>1 DEF ReadFails
    <3>2. more \subseteq Events /\ part \subseteq Events
      BY <1>4 DEF Missed, Unseen
    <3> HIDE DEF more
    <3> QED
      BY <1>4, <3>1, <3>2
  <2>2. CASE BootReads(c) \/ ReadAnswered(c)
    BY <1>4, <2>2 DEF BootReads, ReadAnswered
  <2>3. CASE BootEnds(c) \/ StaleStatus(c) \/ ReadEnds(c)
    BY <1>4, <2>3 DEF BootEnds, StaleStatus, ReadEnds
  <2> QED
    BY <2>1, <2>2, <2>3 DEF Alone
<1> QED
  BY <1>1, <1>2, <1>3, <1>5 DEF TypeOK, hub, bridge

\* The initial state has its types.
LEMMA InitType ==
  ASSUME Init
  PROVE  TypeOK
<1>1. Cardinality(Held(pending)) < PENDING_LIMIT /\ Len(replay) <= REPLAY_LIMIT
  BY NothingHeld, HubBounds DEF Init
<1>2. booting \in [Clients -> BOOLEAN]
  BY DEF Init
<1>3. /\ log = <<>> /\ pending = <<>> /\ replay = <<>> /\ committed = <<>>
      /\ reader = "dialing" /\ everConnected = FALSE /\ latest = NoCursor /\ lost = {}
      /\ faults = 0
  BY DEF Init
<1>5. Len(log) <= MaxEvents /\ faults \in 0 .. MaxFaults
  BY <1>3, EmptySeq, HubBounds
<1>6. /\ log \in Seq(Kinds) /\ pending \in Seq(Texts)
      /\ replay \in Seq(Texts) /\ committed \in Seq(Texts)
  BY <1>3, EmptySeq
<1>4. /\ socket \in [Clients -> {"closed", "waiting", "ready"}]
      /\ asked \in [Clients -> Events \cup {NoCursor}]
      /\ wire \in [Clients -> Seq(Frames)]
      /\ cursor \in [Clients -> Events \cup {NoCursor}]
      /\ fresh \in [Clients -> BOOLEAN] /\ bootRead \in [Clients -> BOOLEAN]
      /\ resync \in [Clients -> {"no", "asked", "answered"}]
      /\ got \in [Clients -> Seq(Events)]
      /\ seen \in [Clients -> SUBSET Events] /\ excused \in [Clients -> SUBSET Events]
  BY DEF Init
<1> QED
  BY <1>1, <1>2, <1>3, <1>4, <1>5, <1>6 DEF TypeOK

\* Every step keeps them.
LEMMA NextType ==
  ASSUME TypeOK, [Next]_vars
  PROVE  TypeOK'
<1>1. ASSUME NEW kind \in Kinds, Produce(kind)
      PROVE  TypeOK'
  BY <1>1, ProduceType
<1>2. CASE WindowEnds
  BY <1>2, FlushType DEF WindowEnds, TypeOK
<1>3. CASE Connect
  BY <1>3, ConnectType
<1>4. CASE UpstreamBreaks
  <2>1. faults' \in 0 .. MaxFaults
    BY <1>4, FaultType DEF UpstreamBreaks
  <2> QED
    BY <1>4, <2>1 DEF UpstreamBreaks, TypeOK, bridge, client
<1>5. CASE InitialError
  <2>1. faults' \in 0 .. MaxFaults
    BY <1>5, FaultType DEF InitialError
  <2>2. /\ socket' \in [Clients -> {"closed", "waiting", "ready"}]
        /\ wire' \in [Clients -> Seq(Frames)] /\ fresh' \in [Clients -> BOOLEAN]
    BY <1>5, ClosedType DEF InitialError
  <2> QED
    BY <1>5, <2>1, <2>2 DEF InitialError, TypeOK, hub, reads
<1>6. CASE Rebind
  <2>1. faults' \in 0 .. MaxFaults
    BY <1>6, FaultType DEF Rebind
  <2> QED
    BY <1>6, <2>1, FlushType DEF Rebind
<1>7. CASE ServerRestarts
  <2>1. faults' \in 0 .. MaxFaults
    BY <1>7, FaultType DEF ServerRestarts
  <2>2. /\ socket' \in [Clients -> {"closed", "waiting", "ready"}]
        /\ wire' \in [Clients -> Seq(Frames)] /\ fresh' \in [Clients -> BOOLEAN]
    BY <1>7, ClosedType DEF ServerRestarts
  <2>3. Held(pending) \subseteq Events
    BY TypeParts DEF Held, Texts, Range
  <2>4. /\ Cardinality(Held(pending')) < PENDING_LIMIT /\ pending' \in Seq(Texts)
        /\ Len(replay') <= REPLAY_LIMIT /\ replay' \in Seq(Texts)
    BY <1>7, NothingHeld, HubBounds DEF ServerRestarts
  <2> QED
    BY <1>7, <2>1, <2>2, <2>3, <2>4 DEF ServerRestarts, TypeOK, reads
<1>8. ASSUME NEW c \in Clients, Accept(c)
      PROVE  TypeOK'
  BY <1>8, AcceptType
<1>9. ASSUME NEW c \in Clients, SocketCloses(c)
      PROVE  TypeOK'
  <2>1. faults' \in 0 .. MaxFaults
    BY <1>9, FaultType DEF SocketCloses
  <2>2. /\ socket' \in [Clients -> {"closed", "waiting", "ready"}]
        /\ wire' \in [Clients -> Seq(Frames)] /\ fresh' \in [Clients -> BOOLEAN]
    BY <1>9, ClosedType DEF SocketCloses
  <2> QED
    BY <1>9, <2>1, <2>2 DEF SocketCloses, TypeOK, hub, reads
<1>10. ASSUME NEW c \in Clients, Receive(c)
       PROVE  TypeOK'
  BY <1>10, ReceiveType
<1>11. ASSUME NEW c \in Clients, Alone(c)
       PROVE  TypeOK'
  BY <1>11, AloneType
<1>12. CASE UNCHANGED vars
  BY <1>12 DEF vars, TypeOK, hub, bridge, client
<1> QED
  BY <1>1, <1>2, <1>3, <1>4, <1>5, <1>6, <1>7, <1>8, <1>9, <1>10, <1>11, <1>12 DEF Next, Alone

\* What the hub, the bridge and the clients hold is of its kind, and the hub
\* keeps the limits of the replay buffer and of the coalescer.
THEOREM TypeCorrect == Spec => []TypeOK
BY InitType, NextType, PTL DEF Spec

-----------------------------------------------------------------------------
(* What was pushed, in the order of its commits *)

\* Events in the order they came.
Rising(text) == \A k, m \in DOMAIN text : k < m => text[k] < text[m]

\* An event may be committed before one that came earlier: they belong to two
\* streams, and nothing but fragments came between them.
MayCross(kinds, gone, e, d) ==
  e > d => /\ kinds[e] # kinds[d]
           /\ \A n \in d .. e : n \in gone \/ kinds[n] \in Streams

\* Texts are in order, of the events of a log of kinds.
Ordered(texts, kinds, gone) ==
  /\ \A i \in DOMAIN texts : Rising(texts[i]) /\ Range(texts[i]) \subseteq 1 .. Len(kinds)
  /\ \A i, j \in DOMAIN texts : i < j => Last(texts[i]) < Last(texts[j])
  /\ \A i, j \in DOMAIN texts : i # j => Range(texts[i]) \cap Range(texts[j]) = {}
  /\ \A i, j \in DOMAIN texts : i < j =>
       \A e \in Range(texts[i]), d \in Range(texts[j]) : MayCross(kinds, gone, e, d)

\* Texts that may change places: each of a stream of its own, and since the
\* oldest of their events there was nothing but fragments.
Apart(texts, kinds, gone) ==
  /\ \A i \in DOMAIN texts : \A e \in Range(texts[i]) : kinds[e] = kinds[Head(texts[i])]
  /\ \A i, j \in DOMAIN texts : i # j => kinds[Head(texts[i])] # kinds[Head(texts[j])]
  /\ \A e \in Held(texts) : \A n \in e .. Len(kinds) : n \in gone \/ kinds[n] \in Streams

\* F with event n is G: n joins text p, which moves to the end, or begins a text
\* there (p = 0); h tells where the others came from.
Grown(F, G, h, p, n) ==
  /\ G # <<>> /\ p \in 0 .. Len(F)
  /\ G[Len(G)] = IF p = 0 THEN <<n>> ELSE Append(F[p], n)
  /\ \A j \in 1 .. Len(G) - 1 : h[j] \in DOMAIN F /\ h[j] # p /\ G[j] = F[h[j]]
  /\ \A i, j \in 1 .. Len(G) - 1 : i < j => h[i] < h[j]
  /\ \A q \in DOMAIN F : q # p => \E j \in 1 .. Len(G) - 1 : h[j] = q

\* A text begun at the end of others.
LEMMA BegunGrown ==
  ASSUME NEW F \in Seq(Texts), NEW n \in Events
  PROVE  \E h : Grown(F, Append(F, <<n>>), h, 0, n)
<1> DEFINE G == Append(F, <<n>>)
           h == [j \in DOMAIN F |-> j]
<1>1. <<n>> \in Texts
  BY DEF Texts
<1>2. G # <<>> /\ Len(G) = Len(F) + 1 /\ G[Len(G)] = <<n>> /\ \A j \in DOMAIN F : G[j] = F[j]
  BY <1>1, AppendProperties
<1> HIDE DEF G
<1>3. 1 .. Len(G) - 1 = DOMAIN F /\ 0 \in 0 .. Len(F)
  BY <1>2
<1>4. Grown(F, G, h, 0, n)
  BY <1>2, <1>3 DEF Grown
<1> QED
  BY <1>4 DEF G

\* An event that joins a text, which moves to the end of the others.
LEMMA JoinedGrown ==
  ASSUME NEW F \in Seq(Texts), NEW n \in Events, NEW p \in DOMAIN F
  PROVE  \E h : Grown(F, Append(RemoveAt(F, p), Append(F[p], n)), h, p, n)
<1> DEFINE others == RemoveAt(F, p)
           text == Append(F[p], n)
           G == Append(others, text)
           h == [j \in 1 .. Len(F) - 1 |-> IF j < p THEN j ELSE j + 1]
<1>1. F[p] \in Seq(Events)
  BY DEF Texts
<1>2. text \in Texts
  <2>1. text \in Seq(Events) /\ text # <<>>
    BY <1>1, AppendProperties
  <2> QED
    BY <2>1 DEF Texts
<1>3. /\ others \in Seq(Texts) /\ Len(others) = Len(F) - 1
      /\ \A j \in 1 .. Len(F) - 1 : others[j] = IF j < p THEN F[j] ELSE F[j + 1]
  BY Without
<1> HIDE DEF others, text
<1>4. /\ G # <<>> /\ Len(G) = Len(F) /\ G[Len(G)] = text
      /\ \A j \in 1 .. Len(F) - 1 : G[j] = others[j]
  BY <1>2, <1>3, AppendProperties
<1> HIDE DEF G
<1>5. p \in 1 .. Len(F) /\ Len(F) \in Nat
  OBVIOUS
<1>6. \A j \in 1 .. Len(F) - 1 : h[j] \in 1 .. Len(F) /\ h[j] # p /\ G[j] = F[h[j]]
  BY <1>3, <1>4, <1>5
<1>7. \A i, j \in 1 .. Len(F) - 1 : i < j => h[i] < h[j]
  BY <1>5
<1>8. ASSUME NEW q \in 1 .. Len(F), q # p
      PROVE  \E j \in 1 .. Len(F) - 1 : h[j] = q
  <2>1. CASE q < p
    <3>1. q \in 1 .. Len(F) - 1 /\ h[q] = q
      BY <1>5, <2>1
    <3> QED
      BY <3>1
  <2>2. CASE q > p
    <3>1. q - 1 \in 1 .. Len(F) - 1 /\ ~ (q - 1 < p) /\ (q - 1) + 1 = q
      BY <1>5, <2>2
    <3> QED
      BY <3>1
  <2> QED
    BY <1>5, <1>8, <2>1, <2>2
<1> HIDE DEF h
<1>9. Grown(F, G, h, p, n)
  BY <1>4, <1>5, <1>6, <1>7, <1>8 DEF Grown, text
<1> QED
  BY <1>9 DEF G, others, text

\* A fragment joins, or begins, a text held back.
LEMMA MergedGrown ==
  ASSUME TypeOK, NEW n \in Events, NEW stream
  PROVE  \E h, p : /\ Grown(pending, Merged(n, stream), h, p, n)
                   /\ p = 0 => \A i \in DOMAIN pending : ~Mine(pending[i], stream)
                   /\ p # 0 => Mine(pending[p], stream)
<1>1. pending \in Seq(Texts)
  BY TypeParts
<1>2. CASE /\ \A i \in DOMAIN pending : ~Mine(pending[i], stream)
           /\ Merged(n, stream) = Append(pending, <<n>>)
  BY <1>1, <1>2, BegunGrown
<1>3. ASSUME NEW p \in DOMAIN pending, Mine(pending[p], stream),
             Merged(n, stream) = Append(RemoveAt(pending, p), Append(pending[p], n))
      PROVE  \E h : Grown(pending, Merged(n, stream), h, p, n) /\ p # 0 /\ Mine(pending[p], stream)
  BY <1>1, <1>3, JoinedGrown
<1> QED
  BY <1>2, <1>3, MergedCases

\* The same after what has been committed.
LEMMA GrownAfter ==
  ASSUME NEW C \in Seq(Texts), NEW F \in Seq(Texts), NEW G \in Seq(Texts),
         NEW h, NEW p, NEW n \in Events, Grown(F, G, h, p, n)
  PROVE  \E g : Grown(C \o F, C \o G, g, IF p = 0 THEN 0 ELSE Len(C) + p, n)
<1> DEFINE g == [j \in 1 .. Len(C) + Len(G) - 1 |->
                   IF j <= Len(C) THEN j ELSE Len(C) + h[j - Len(C)]]
           r == IF p = 0 THEN 0 ELSE Len(C) + p
<1>1. Len(C) \in Nat /\ Len(F) \in Nat /\ Len(G) \in Nat /\ Len(G) > 0 /\ p \in 0 .. Len(F)
  BY DEF Grown
<1>2. /\ Len(C \o F) = Len(C) + Len(F) /\ Len(C \o G) = Len(C) + Len(G)
      /\ \A i \in 1 .. Len(C) : (C \o F)[i] = C[i] /\ (C \o G)[i] = C[i]
      /\ \A i \in 1 .. Len(F) : (C \o F)[Len(C) + i] = F[i]
      /\ \A i \in 1 .. Len(G) : (C \o G)[Len(C) + i] = G[i]
      /\ DOMAIN (C \o F) = 1 .. Len(C) + Len(F)
  BY <1>1, ConcatProperties
<1>3. /\ \A j \in 1 .. Len(G) - 1 : h[j] \in 1 .. Len(F) /\ h[j] # p /\ G[j] = F[h[j]]
      /\ \A i, j \in 1 .. Len(G) - 1 : i < j => h[i] < h[j]
      /\ \A q \in 1 .. Len(F) : q # p => \E j \in 1 .. Len(G) - 1 : h[j] = q
      /\ G[Len(G)] = IF p = 0 THEN <<n>> ELSE Append(F[p], n)
  <2>1. DOMAIN F = 1 .. Len(F)
    OBVIOUS
  <2> QED
    BY <2>1 DEF Grown
<1> DEFINE FF == C \o F
           GG == C \o G
<1> HIDE DEF FF, GG
<1>4. /\ GG # <<>> /\ r \in 0 .. Len(FF)
      /\ GG[Len(GG)] = IF r = 0 THEN <<n>> ELSE Append(FF[r], n)
  <2>1. Len(GG) = Len(C) + Len(G) /\ Len(GG) > 0
    BY <1>1, <1>2 DEF GG
  <2>2. Len(<<>>) = 0
    BY EmptySeq
  <2>3. GG[Len(GG)] = G[Len(G)]
    BY <1>1, <1>2, <2>1 DEF GG
  <2>4. p # 0 => FF[Len(C) + p] = F[p]
    BY <1>1, <1>2 DEF FF
  <2>5. Len(FF) = Len(C) + Len(F)
    BY <1>2 DEF FF
  <2> QED
    BY <1>1, <1>3, <2>1, <2>2, <2>3, <2>4, <2>5
<1>5. Len(GG) - 1 = Len(C) + Len(G) - 1 /\ DOMAIN FF = 1 .. Len(C) + Len(F)
  BY <1>2 DEF GG, FF
<1>6. ASSUME NEW j \in 1 .. Len(C) + Len(G) - 1
      PROVE  g[j] \in 1 .. Len(C) + Len(F) /\ g[j] # r /\ GG[j] = FF[g[j]]
  <2>1. CASE j <= Len(C)
    <3>1. g[j] = j
      BY <2>1
    <3> QED
      BY <1>1, <1>2, <2>1, <3>1 DEF GG, FF
  <2>2. CASE ~ (j <= Len(C))
    <3>1. j - Len(C) \in 1 .. Len(G) - 1 /\ g[j] = Len(C) + h[j - Len(C)]
          /\ Len(C) + (j - Len(C)) = j
      BY <1>1, <2>2
    <3>2. h[j - Len(C)] \in 1 .. Len(F) /\ h[j - Len(C)] # p /\ G[j - Len(C)] = F[h[j - Len(C)]]
      BY <1>3, <3>1
    <3> HIDE DEF g
    <3>3. GG[j] = G[j - Len(C)]
      <4>1. j - Len(C) \in 1 .. Len(G)
        BY <1>1, <3>1
      <4> QED
        BY <1>2, <3>1, <4>1 DEF GG
    <3>4. FF[g[j]] = F[h[j - Len(C)]]
      BY <1>2, <3>1, <3>2 DEF FF
    <3>5. g[j] \in 1 .. Len(C) + Len(F) /\ g[j] # r
      BY <1>1, <3>1, <3>2
    <3> QED
      BY <3>2, <3>3, <3>4, <3>5
  <2> QED
    BY <2>1, <2>2
<1>7. ASSUME NEW i \in 1 .. Len(C) + Len(G) - 1, NEW j \in 1 .. Len(C) + Len(G) - 1, i < j
      PROVE  g[i] < g[j]
  <2>1. CASE j <= Len(C)
    BY <1>1, <1>7, <2>1
  <2>2. CASE i <= Len(C) /\ ~ (j <= Len(C))
    <3>1. j - Len(C) \in 1 .. Len(G) - 1
      BY <1>1, <2>2
    <3>2. h[j - Len(C)] \in 1 .. Len(F)
      BY <1>3, <3>1
    <3> QED
      BY <1>1, <2>2, <3>2
  <2>3. CASE ~ (i <= Len(C))
    <3>1. i - Len(C) \in 1 .. Len(G) - 1 /\ j - Len(C) \in 1 .. Len(G) - 1
          /\ i - Len(C) < j - Len(C) /\ ~ (j <= Len(C))
      BY <1>1, <1>7, <2>3
    <3>2. /\ h[i - Len(C)] < h[j - Len(C)]
          /\ h[i - Len(C)] \in 1 .. Len(F) /\ h[j - Len(C)] \in 1 .. Len(F)
      BY <1>3, <3>1
    <3> QED
      BY <1>1, <2>3, <3>1, <3>2
  <2> QED
    BY <1>1, <2>1, <2>2, <2>3
<1>8. ASSUME NEW q \in 1 .. Len(C) + Len(F), q # r
      PROVE  \E j \in 1 .. Len(C) + Len(G) - 1 : g[j] = q
  <2>1. CASE q <= Len(C)
    <3>1. q \in 1 .. Len(C) + Len(G) - 1 /\ g[q] = q
      BY <1>1, <2>1
    <3> QED
      BY <3>1
  <2>2. CASE ~ (q <= Len(C))
    <3>1. q - Len(C) \in 1 .. Len(F) /\ q - Len(C) # p
      BY <1>1, <1>8, <2>2
    <3>2. PICK k \in 1 .. Len(G) - 1 : h[k] = q - Len(C)
      BY <1>3, <3>1
    <3>3. Len(C) + k \in 1 .. Len(C) + Len(G) - 1 /\ ~ (Len(C) + k <= Len(C))
          /\ (Len(C) + k) - Len(C) = k
      BY <1>1
    <3>4. g[Len(C) + k] = q
      BY <1>1, <3>2, <3>3
    <3> QED
      BY <3>3, <3>4
  <2> QED
    BY <2>1, <2>2
<1> HIDE DEF g, r
<1>9. Grown(FF, GG, g, r, n)
  BY <1>4, <1>5, <1>6, <1>7, <1>8 DEF Grown
<1> QED
  BY <1>9 DEF FF, GG, r

\* A sequence with one more element.
LEMMA Appended ==
  ASSUME NEW S, NEW s \in Seq(S), NEW e \in S
  PROVE  /\ Append(s, e) \in Seq(S) /\ Append(s, e) # <<>>
         /\ Range(Append(s, e)) = Range(s) \cup {e}
         /\ Last(Append(s, e)) = e /\ (s # <<>> => Head(Append(s, e)) = Head(s))
<1>1. /\ Append(s, e) \in Seq(S) /\ Append(s, e) # <<>> /\ Len(Append(s, e)) = Len(s) + 1
      /\ \A i \in 1 .. Len(s) : Append(s, e)[i] = s[i]
      /\ Append(s, e)[Len(s) + 1] = e
  BY AppendProperties
<1>2. Last(Append(s, e)) = e
  BY <1>1 DEF Last
<1>3. s # <<>> => Head(Append(s, e)) = Head(s)
  BY <1>1, HeadTailAppend
<1>4. DOMAIN Append(s, e) = 1 .. Len(s) + 1 /\ DOMAIN s = 1 .. Len(s) /\ Len(s) \in Nat
  BY <1>1
<1>5. Range(Append(s, e)) \subseteq Range(s) \cup {e}
  <2>1. ASSUME NEW i \in 1 .. Len(s) + 1
        PROVE  Append(s, e)[i] \in Range(s) \cup {e}
    <3>1. CASE i = Len(s) + 1
      BY <1>1, <3>1
    <3>2. CASE i # Len(s) + 1
      <4>1. i \in 1 .. Len(s)
        BY <1>4, <3>2
      <4> QED
        BY <1>1, <1>4, <4>1 DEF Range
    <3> QED
      BY <3>1, <3>2
  <2> QED
    BY <1>4, <2>1 DEF Range
<1>6. Range(s) \cup {e} \subseteq Range(Append(s, e))
  <2>1. ASSUME NEW i \in 1 .. Len(s)
        PROVE  s[i] \in Range(Append(s, e))
    <3>1. i \in 1 .. Len(s) + 1
      BY <1>4
    <3> QED
      BY <1>1, <1>4, <3>1 DEF Range
  <2>2. e \in Range(Append(s, e))
    <3>1. Len(s) + 1 \in 1 .. Len(s) + 1
      BY <1>4
    <3> QED
      BY <1>1, <1>4, <3>1 DEF Range
  <2> QED
    BY <1>4, <2>1, <2>2 DEF Range
<1> QED
  BY <1>1, <1>2, <1>3, <1>5, <1>6

\* The text that grew.
LEMMA GrownText ==
  ASSUME NEW F \in Seq(Texts), NEW G \in Seq(Texts), NEW h, NEW p, NEW n \in Events,
         Grown(F, G, h, p, n)
  PROVE  /\ Len(G) \in DOMAIN G /\ Len(G) \in Nat /\ DOMAIN G \subseteq Nat
         /\ \A i : i \in DOMAIN G <=> i \in 1 .. Len(G) - 1 \/ i = Len(G)
         /\ \A i \in DOMAIN G : i # Len(G) => i < Len(G)
         /\ p # 0 => p \in DOMAIN F
         /\ \A e : e \in Range(G[Len(G)]) <=> e = n \/ (p # 0 /\ e \in Range(F[p]))
         /\ Last(G[Len(G)]) = n
         /\ p = 0 => Head(G[Len(G)]) = n
         /\ p # 0 => Head(G[Len(G)]) = Head(F[p])
<1>1. G # <<>> /\ p \in 0 .. Len(F) /\ G[Len(G)] = IF p = 0 THEN <<n>> ELSE Append(F[p], n)
  BY DEF Grown
<1>2. /\ Len(G) \in DOMAIN G /\ Len(G) \in Nat /\ DOMAIN G \subseteq Nat
      /\ \A i : i \in DOMAIN G <=> i \in 1 .. Len(G) - 1 \/ i = Len(G)
      /\ \A i \in DOMAIN G : i # Len(G) => i < Len(G)
  <2>1. DOMAIN G = 1 .. Len(G) /\ Len(G) \in Nat /\ Len(G) # 0
    BY <1>1, EmptySeq
  <2> QED
    BY <2>1
<1>3. p # 0 => p \in DOMAIN F
  BY <1>1
<1>4. Range(<<n>>) = {n} /\ Last(<<n>>) = n /\ Head(<<n>>) = n
  BY DEF Range, Last
<1>5. p # 0 => F[p] \in Seq(Events) /\ F[p] # <<>>
  BY <1>3 DEF Texts
<1>6. p # 0 => /\ Range(Append(F[p], n)) = Range(F[p]) \cup {n}
               /\ Last(Append(F[p], n)) = n /\ Head(Append(F[p], n)) = Head(F[p])
  BY <1>5, Appended
<1> QED
  BY <1>1, <1>2, <1>3, <1>4, <1>6

\* The events held are those held before and the new one.
LEMMA GrownHeld ==
  ASSUME NEW F \in Seq(Texts), NEW G \in Seq(Texts), NEW h, NEW p, NEW n \in Events,
         Grown(F, G, h, p, n)
  PROVE  Held(G) = Held(F) \cup {n}
<1>1. /\ \A i : i \in DOMAIN G <=> i \in 1 .. Len(G) - 1 \/ i = Len(G)
      /\ p # 0 => p \in DOMAIN F
      /\ \A e : e \in Range(G[Len(G)]) <=> e = n \/ (p # 0 /\ e \in Range(F[p]))
  BY GrownText
<1>2. /\ \A j \in 1 .. Len(G) - 1 : h[j] \in DOMAIN F /\ G[j] = F[h[j]]
      /\ \A q \in DOMAIN F : q # p => \E j \in 1 .. Len(G) - 1 : h[j] = q
  BY DEF Grown
<1>3. \A j \in DOMAIN G : Range(G[j]) \subseteq Held(F) \cup {n}
  BY <1>1, <1>2 DEF Held
<1>4. ASSUME NEW q \in DOMAIN F
      PROVE  Range(F[q]) \subseteq Held(G)
  <2>1. CASE q = p
    <3>1. p # 0
      BY <2>1
    <3>2. Range(F[p]) \subseteq Range(G[Len(G)]) /\ Len(G) \in DOMAIN G
      BY <1>1, <3>1
    <3> QED
      BY <2>1, <3>2 DEF Held
  <2>2. CASE q # p
    <3>1. PICK j \in 1 .. Len(G) - 1 : h[j] = q
      BY <1>2, <2>2
    <3>2. j \in DOMAIN G /\ G[j] = F[q]
      BY <1>1, <1>2, <3>1
    <3> QED
      BY <3>2 DEF Held
  <2> QED
    BY <2>1, <2>2
<1>5. n \in Held(G)
  BY <1>1 DEF Held
<1> QED
  BY <1>3, <1>4, <1>5 DEF Held

\* A text in ascending order with a newer event at its end.
LEMMA RisingOn ==
  ASSUME NEW text \in Seq(Events), Rising(text), NEW n \in Events,
         \A e \in Range(text) : e < n
  PROVE  Rising(Append(text, n))
<1>1. /\ Len(Append(text, n)) = Len(text) + 1
      /\ \A i \in 1 .. Len(text) : Append(text, n)[i] = text[i]
      /\ Append(text, n)[Len(text) + 1] = n
      /\ Append(text, n) \in Seq(Events)
  BY AppendProperties
<1>2. DOMAIN Append(text, n) = 1 .. Len(text) + 1 /\ DOMAIN text = 1 .. Len(text)
      /\ Len(text) \in Nat
  BY <1>1
<1>3. ASSUME NEW k \in 1 .. Len(text) + 1, NEW m \in 1 .. Len(text) + 1, k < m
      PROVE  Append(text, n)[k] < Append(text, n)[m]
  <2>1. k \in 1 .. Len(text)
    BY <1>2, <1>3
  <2>2. CASE m = Len(text) + 1
    BY <1>1, <1>2, <2>1, <2>2 DEF Range
  <2>3. CASE m # Len(text) + 1
    <3>1. m \in 1 .. Len(text)
      BY <1>2, <2>3
    <3> QED
      BY <1>1, <1>2, <1>3, <2>1, <3>1 DEF Rising
  <2> QED
    BY <2>2, <2>3
<1> QED
  BY <1>2, <1>3 DEF Rising

\* The last event of a text in ascending order is its newest.
LEMMA LastNewest ==
  ASSUME NEW text \in Texts, Rising(text)
  PROVE  \A e \in Range(text) : e <= Last(text)
<1>1. text \in Seq(Events) /\ text # <<>>
  BY DEF Texts
<1>2. Len(text) \in DOMAIN text /\ DOMAIN text = 1 .. Len(text)
  BY <1>1, LastOf
<1>3. ASSUME NEW k \in DOMAIN text
      PROVE  text[k] <= text[Len(text)]
  <2>1. CASE k < Len(text)
    <3>1. text[k] < text[Len(text)] /\ text[k] \in Events /\ text[Len(text)] \in Events
      BY <1>1, <1>2, <2>1 DEF Rising
    <3> QED
      BY <3>1 DEF Events
  <2>2. CASE k = Len(text)
    <3>1. text[k] \in Events
      BY <1>1
    <3>2. text[k] \in Nat
      BY <3>1 DEF Events
    <3> QED
      BY <2>2, <3>2
  <2> QED
    BY <1>2, <2>1, <2>2
<1> QED
  BY <1>3 DEF Range, Last

\* What is in order stays in order with the next event.
LEMMA OrderedGrows ==
  ASSUME NEW F \in Seq(Texts), NEW G \in Seq(Texts), NEW h, NEW p, NEW n \in Events,
         Grown(F, G, h, p, n),
         NEW kinds \in Seq(Kinds), NEW longer \in Seq(Kinds), NEW gone,
         n = Len(kinds) + 1, Len(longer) = n, \A i \in 1 .. Len(kinds) : longer[i] = kinds[i],
         Ordered(F, kinds, gone),
         p # 0 => \A q \in DOMAIN F : q > p =>
           \A e \in Range(F[q]), d \in Range(F[p]) : MayCross(kinds, gone, e, d)
  PROVE  Ordered(G, longer, gone)
<1> DEFINE last == Len(G)
<1>1. /\ last \in DOMAIN G /\ last \in Nat /\ DOMAIN G \subseteq Nat
      /\ \A i : i \in DOMAIN G <=> i \in 1 .. last - 1 \/ i = last
      /\ \A i \in DOMAIN G : i # last => i < last
      /\ p # 0 => p \in DOMAIN F
      /\ \A e : e \in Range(G[last]) <=> e = n \/ (p # 0 /\ e \in Range(F[p]))
      /\ Last(G[last]) = n
  <2>1. Grown(F, G, h, p, n)
    OBVIOUS
  <2> QED
    BY ONLY <2>1, GrownText, F \in Seq(Texts), G \in Seq(Texts), n \in Events
<1>2. /\ \A j \in 1 .. last - 1 : h[j] \in DOMAIN F /\ h[j] # p /\ G[j] = F[h[j]]
      /\ \A i, j \in 1 .. last - 1 : i < j => h[i] < h[j]
      /\ G[last] = IF p = 0 THEN <<n>> ELSE Append(F[p], n)
  BY DEF Grown
<1>3. /\ \A i \in DOMAIN F : Rising(F[i]) /\ Range(F[i]) \subseteq 1 .. Len(kinds)
      /\ \A i, j \in DOMAIN F : i < j => Last(F[i]) < Last(F[j])
      /\ \A i, j \in DOMAIN F : i # j => Range(F[i]) \cap Range(F[j]) = {}
      /\ \A i, j \in DOMAIN F : i < j =>
           \A e \in Range(F[i]), d \in Range(F[j]) : MayCross(kinds, gone, e, d)
  BY DEF Ordered
<1>4. last \in Nat /\ DOMAIN F \subseteq Nat /\ Len(kinds) \in Nat /\ n \in Nat
  BY <1>1
<1>5. \A i \in DOMAIN F : \A e \in Range(F[i]) : e < n /\ e \in 1 .. n
  BY <1>3, <1>4
<1>6. \A i \in DOMAIN F : F[i] \in Texts /\ F[i] \in Seq(Events) /\ Last(F[i]) \in Range(F[i])
  BY LastOf DEF Texts
<1>7. ASSUME NEW i \in DOMAIN G
      PROVE  Rising(G[i]) /\ Range(G[i]) \subseteq 1 .. Len(longer)
  <2>1. CASE i \in 1 .. last - 1
    BY <1>2, <1>3, <1>5, <2>1
  <2>2. CASE i = last
    <3>1. Range(G[last]) \subseteq 1 .. n
      BY <1>1, <1>4, <1>5
    <3>2. Rising(G[last])
      <4>1. CASE p = 0
        BY <1>2, <4>1 DEF Rising
      <4>2. CASE p # 0
        <5>1. F[p] \in Seq(Events) /\ Rising(F[p]) /\ \A e \in Range(F[p]) : e < n
          BY <1>1, <1>3, <1>5, <1>6, <4>2
        <5> QED
          BY <1>2, <4>2, <5>1, RisingOn
      <4> QED
        BY <4>1, <4>2
    <3> QED
      BY <2>2, <3>1, <3>2
  <2> QED
    BY <1>1, <2>1, <2>2
<1>8. \A i \in 1 .. last - 1 : \A e \in Range(G[i]) : e < n
  BY <1>2, <1>5
<1>9. ASSUME NEW i \in DOMAIN G, NEW j \in DOMAIN G, i < j
      PROVE  /\ Last(G[i]) < Last(G[j]) /\ Range(G[i]) \cap Range(G[j]) = {}
             /\ \A e \in Range(G[i]), d \in Range(G[j]) : MayCross(longer, gone, e, d)
  <2>0. i # last
    <3>1. i = last => j <= last
      BY <1>1
    <3> QED
      BY <1>1, <1>9, <3>1
  <2>1. i \in 1 .. last - 1 /\ h[i] \in DOMAIN F /\ h[i] # p /\ G[i] = F[h[i]]
    BY <1>1, <1>2, <2>0
  <2>2. \A e, d \in 1 .. Len(kinds) : MayCross(kinds, gone, e, d) => MayCross(longer, gone, e, d)
    <3> SUFFICES ASSUME NEW e \in 1 .. Len(kinds), NEW d \in 1 .. Len(kinds),
                        MayCross(kinds, gone, e, d), e > d
                 PROVE  MayCross(longer, gone, e, d)
      BY DEF MayCross
    <3>1. kinds[e] # kinds[d] /\ \A m \in d .. e : m \in gone \/ kinds[m] \in Streams
      BY DEF MayCross
    <3>2. longer[e] = kinds[e] /\ longer[d] = kinds[d]
          /\ \A m \in d .. e : longer[m] = kinds[m]
      BY <1>4
    <3> QED
      BY <3>1, <3>2 DEF MayCross
  <2>3. CASE j \in 1 .. last - 1
    <3>1. h[j] \in DOMAIN F /\ G[j] = F[h[j]] /\ h[i] < h[j]
      BY <1>2, <1>9, <2>1, <2>3
    <3>2. h[i] # h[j]
      BY <1>4, <2>1, <3>1
    <3>3. \A e \in Range(G[i]), d \in Range(G[j]) : MayCross(longer, gone, e, d)
      BY <1>3, <2>1, <2>2, <3>1
    <3> QED
      BY <1>3, <2>1, <3>1, <3>2, <3>3
  <2>4. CASE j = last
    <3>1. Last(G[i]) < Last(G[j])
      BY <1>1, <1>5, <1>6, <2>1, <2>4
    <3>2. Range(G[i]) \cap Range(G[j]) = {}
      <4>1. n \notin Range(G[i])
        BY <1>4, <1>5, <2>1
      <4> QED
        BY <1>1, <1>3, <2>1, <2>4, <4>1
    <3>3. ASSUME NEW e \in Range(G[i]), NEW d \in Range(G[j])
          PROVE  MayCross(longer, gone, e, d)
      <4>0. e \in 1 .. Len(kinds) /\ e < n
        BY <1>3, <1>5, <2>1
      <4>1. CASE d = n
        <5>1. ~ (e > d)
          BY <1>4, <4>0, <4>1
        <5> QED
          BY <5>1 DEF MayCross
      <4>2. CASE p # 0 /\ d \in Range(F[p])
        <5>1. d \in 1 .. Len(kinds)
          BY <1>1, <1>3, <4>2
        <5>2. CASE h[i] < p
          BY <1>1, <1>3, <2>1, <2>2, <4>0, <4>2, <5>1, <5>2
        <5>3. CASE h[i] > p
          BY <1>1, <2>1, <2>2, <4>0, <4>2, <5>1, <5>3
        <5>4. h[i] < p \/ h[i] > p
          <6>1. h[i] \in Nat /\ p \in Nat /\ h[i] # p
            BY <1>1, <1>4, <2>1, <4>2
          <6> QED
            BY <6>1
        <5> QED
          BY <5>2, <5>3, <5>4
      <4> QED
        BY <1>1, <2>4, <4>1, <4>2
    <3> QED
      BY <3>1, <3>2, <3>3
  <2> QED
    BY <1>1, <2>3, <2>4
<1>10. \A i, j \in DOMAIN G : i # j => Range(G[i]) \cap Range(G[j]) = {}
  <2>1. DOMAIN G \subseteq Nat
    BY <1>1
  <2>2. \A i, j \in DOMAIN G : i < j => Range(G[i]) \cap Range(G[j]) = {}
    BY <1>9
  <2>3. \A i, j \in DOMAIN G : i # j => i < j \/ j < i
    BY <2>1
  <2> QED
    BY <2>2, <2>3
<1> HIDE DEF last
<1> QED
  BY <1>7, <1>9, <1>10 DEF Ordered

\* What is in order stays in order as the log grows and events are lost.
LEMMA OrderedLater ==
  ASSUME NEW F \in Seq(Texts), NEW kinds \in Seq(Kinds), NEW longer \in Seq(Kinds),
         NEW gone, NEW more, gone \subseteq more, Len(kinds) <= Len(longer),
         \A i \in 1 .. Len(kinds) : longer[i] = kinds[i],
         Ordered(F, kinds, gone)
  PROVE  Ordered(F, longer, more)
<1>1. /\ \A i \in DOMAIN F : Rising(F[i]) /\ Range(F[i]) \subseteq 1 .. Len(kinds)
      /\ \A i, j \in DOMAIN F : i < j => Last(F[i]) < Last(F[j])
      /\ \A i, j \in DOMAIN F : i # j => Range(F[i]) \cap Range(F[j]) = {}
      /\ \A i, j \in DOMAIN F : i < j =>
           \A e \in Range(F[i]), d \in Range(F[j]) : MayCross(kinds, gone, e, d)
  BY DEF Ordered
<1>2. 1 .. Len(kinds) \subseteq 1 .. Len(longer)
  OBVIOUS
<1>3. \A e, d \in 1 .. Len(kinds) : MayCross(kinds, gone, e, d) => MayCross(longer, more, e, d)
  <2> SUFFICES ASSUME NEW e \in 1 .. Len(kinds), NEW d \in 1 .. Len(kinds),
                      MayCross(kinds, gone, e, d), e > d
               PROVE  MayCross(longer, more, e, d)
    BY DEF MayCross
  <2>1. kinds[e] # kinds[d] /\ \A m \in d .. e : m \in gone \/ kinds[m] \in Streams
    BY DEF MayCross
  <2>2. longer[e] = kinds[e] /\ longer[d] = kinds[d] /\ \A m \in d .. e : longer[m] = kinds[m]
    OBVIOUS
  <2> QED
    BY <2>1, <2>2 DEF MayCross
<1>4. \A i, j \in DOMAIN F : i < j =>
        \A e \in Range(F[i]), d \in Range(F[j]) : MayCross(longer, more, e, d)
  BY <1>1, <1>3
<1> QED
  BY <1>1, <1>2, <1>4 DEF Ordered

\* What comes first is in order by itself.
LEMMA OrderedPrefix ==
  ASSUME NEW F \in Seq(Texts), NEW G \in Seq(Texts), NEW kinds, NEW gone,
         \A i \in DOMAIN G : i \in DOMAIN F /\ G[i] = F[i],
         Ordered(F, kinds, gone)
  PROVE  Ordered(G, kinds, gone)
BY DEF Ordered

\* Texts that may change places still may with the next fragment in them.
LEMMA ApartGrows ==
  ASSUME NEW F \in Seq(Texts), NEW G \in Seq(Texts), NEW h, NEW p, NEW n \in Events,
         Grown(F, G, h, p, n),
         NEW kinds \in Seq(Kinds), NEW longer \in Seq(Kinds), NEW gone,
         n = Len(kinds) + 1, Len(longer) = n, \A i \in 1 .. Len(kinds) : longer[i] = kinds[i],
         longer[n] \in Streams,
         \A i \in DOMAIN F : Range(F[i]) \subseteq 1 .. Len(kinds),
         p = 0 => \A i \in DOMAIN F : kinds[Head(F[i])] # longer[n],
         p # 0 => kinds[Head(F[p])] = longer[n],
         Apart(F, kinds, gone)
  PROVE  Apart(G, longer, gone)
<1>1. /\ \A i : i \in DOMAIN G <=> i \in 1 .. Len(G) - 1 \/ i = Len(G)
      /\ \A i \in DOMAIN G : i # Len(G) => i < Len(G)
      /\ p # 0 => p \in DOMAIN F
      /\ \A e : e \in Range(G[Len(G)]) <=> e = n \/ (p # 0 /\ e \in Range(F[p]))
      /\ p = 0 => Head(G[Len(G)]) = n
      /\ p # 0 => Head(G[Len(G)]) = Head(F[p])
  <2>1. Grown(F, G, h, p, n)
    OBVIOUS
  <2> QED
    BY ONLY <2>1, GrownText, F \in Seq(Texts), G \in Seq(Texts), n \in Events
<1>2. /\ \A j \in 1 .. Len(G) - 1 : h[j] \in DOMAIN F /\ h[j] # p /\ G[j] = F[h[j]]
      /\ \A i, j \in 1 .. Len(G) - 1 : i < j => h[i] < h[j]
  BY DEF Grown
<1>3. Held(G) = Held(F) \cup {n}
  BY GrownHeld
<1>4. \A i \in DOMAIN F : Head(F[i]) \in Range(F[i])
  <2> SUFFICES ASSUME NEW i \in DOMAIN F
               PROVE  Head(F[i]) \in Range(F[i])
    OBVIOUS
  <2>1. F[i] \in Seq(Events) /\ F[i] # <<>>
    BY DEF Texts
  <2>2. 1 \in DOMAIN F[i] /\ Head(F[i]) = F[i][1]
    BY <2>1
  <2> QED
    BY <2>2 DEF Range
<1>5. \A i \in DOMAIN F : \A e \in Range(F[i]) : longer[e] = kinds[e] /\ e \in 1 .. Len(kinds)
  OBVIOUS
<1>6. /\ \A i \in DOMAIN F : \A e \in Range(F[i]) : longer[e] = longer[Head(F[i])]
      /\ \A i, j \in DOMAIN F : i # j => longer[Head(F[i])] # longer[Head(F[j])]
      /\ \A i \in DOMAIN F : (p = 0 => longer[Head(F[i])] # longer[n])
                             /\ (p # 0 => longer[Head(F[p])] = longer[n])
  BY <1>1, <1>4, <1>5 DEF Apart
<1>7. ASSUME NEW i \in DOMAIN G, NEW e \in Range(G[i])
      PROVE  longer[e] = longer[Head(G[i])]
  <2>1. CASE i = Len(G)
    <3>1. e = n \/ (p # 0 /\ e \in Range(F[p]))
      BY <1>1, <1>7, <2>1
    <3>2. longer[Head(G[i])] = longer[n]
      BY <1>1, <1>6, <2>1
    <3>3. p # 0 /\ e \in Range(F[p]) => longer[e] = longer[n]
      BY <1>1, <1>6
    <3> QED
      BY <3>1, <3>2, <3>3
  <2>2. CASE i \in 1 .. Len(G) - 1
    BY <1>2, <1>6, <1>7, <2>2
  <2> QED
    BY <1>1, <2>1, <2>2
<1>8. \A j \in 1 .. Len(G) - 1 : longer[Head(G[j])] # longer[Head(G[Len(G)])]
  <2> SUFFICES ASSUME NEW j \in 1 .. Len(G) - 1
               PROVE  longer[Head(G[j])] # longer[Head(G[Len(G)])]
    OBVIOUS
  <2>1. h[j] \in DOMAIN F /\ h[j] # p /\ G[j] = F[h[j]]
    BY <1>2
  <2>2. CASE p = 0
    BY <1>1, <1>6, <2>1, <2>2
  <2>3. CASE p # 0
    BY <1>1, <1>6, <2>1, <2>3
  <2> QED
    BY <2>2, <2>3
<1>9. \A i, j \in 1 .. Len(G) - 1 : i # j => longer[Head(G[i])] # longer[Head(G[j])]
  <2> SUFFICES ASSUME NEW i \in 1 .. Len(G) - 1, NEW j \in 1 .. Len(G) - 1, i # j
               PROVE  longer[Head(G[i])] # longer[Head(G[j])]
    OBVIOUS
  <2>1. i < j \/ j < i
    OBVIOUS
  <2>2. h[i] \in DOMAIN F /\ h[j] \in DOMAIN F /\ G[i] = F[h[i]] /\ G[j] = F[h[j]]
    BY <1>2
  <2>3. h[i] # h[j]
    <3>1. h[i] < h[j] \/ h[j] < h[i]
      BY <1>2, <2>1
    <3>2. h[i] \in Nat /\ h[j] \in Nat
      BY <2>2
    <3> QED
      BY <3>1, <3>2
  <2> QED
    BY <1>6, <2>2, <2>3
<1>10. ASSUME NEW e \in Held(G), NEW m \in e .. n
       PROVE  m \in gone \/ longer[m] \in Streams
  <2>1. CASE m = n
    BY <2>1
  <2>2. CASE m # n
    <3>1. e \in Held(F)
      <4>1. e # n
        <5>1. n \in Nat
          OBVIOUS
        <5> QED
          BY <1>10, <2>2, <5>1
      <4> QED
        BY <1>3, <1>10, <4>1
    <3>2. e \in 1 .. Len(kinds)
      BY <3>1 DEF Held
    <3>3. m \in e .. Len(kinds) /\ longer[m] = kinds[m]
      BY <1>10, <2>2, <3>2
    <3> QED
      BY <3>1, <3>3 DEF Apart
  <2> QED
    BY <2>1, <2>2
<1>11. \A i, j \in DOMAIN G : i # j => longer[Head(G[i])] # longer[Head(G[j])]
  BY <1>1, <1>8, <1>9
<1> QED
  BY <1>7, <1>10, <1>11 DEF Apart

\* An event that is lost at once keeps the pending texts apart.
LEMMA ApartLater ==
  ASSUME NEW F \in Seq(Texts), NEW kinds \in Seq(Kinds), NEW longer \in Seq(Kinds), NEW gone,
         Len(longer) = Len(kinds) + 1, \A i \in 1 .. Len(kinds) : longer[i] = kinds[i],
         \A i \in DOMAIN F : Range(F[i]) \subseteq 1 .. Len(kinds),
         Apart(F, kinds, gone)
  PROVE  Apart(F, longer, gone \cup {Len(longer)})
<1>1. \A i \in DOMAIN F : Head(F[i]) \in Range(F[i])
  <2> SUFFICES ASSUME NEW i \in DOMAIN F
               PROVE  Head(F[i]) \in Range(F[i])
    OBVIOUS
  <2>1. F[i] \in Seq(Events) /\ F[i] # <<>>
    BY DEF Texts
  <2>2. 1 \in DOMAIN F[i] /\ Head(F[i]) = F[i][1]
    BY <2>1
  <2> QED
    BY <2>2 DEF Range
<1>2. \A i \in DOMAIN F : \A e \in Range(F[i]) : longer[e] = kinds[e] /\ e \in 1 .. Len(kinds)
  OBVIOUS
<1>3. /\ \A i \in DOMAIN F : \A e \in Range(F[i]) : longer[e] = longer[Head(F[i])]
      /\ \A i, j \in DOMAIN F : i # j => longer[Head(F[i])] # longer[Head(F[j])]
  BY <1>1, <1>2 DEF Apart
<1>4. ASSUME NEW e \in Held(F), NEW m \in e .. Len(longer)
      PROVE  m \in gone \cup {Len(longer)} \/ longer[m] \in Streams
  <2>1. e \in 1 .. Len(kinds)
    BY DEF Held
  <2>2. CASE m # Len(longer)
    <3>1. m \in e .. Len(kinds) /\ longer[m] = kinds[m]
      BY <1>4, <2>1, <2>2
    <3> QED
      BY <3>1 DEF Apart
  <2> QED
    BY <2>2
<1> QED
  BY <1>3, <1>4 DEF Apart

\* No texts are in the way of each other.
LEMMA NoneApart ==
  ASSUME NEW kinds, NEW gone
  PROVE  Apart(<<>>, kinds, gone)
BY DEF Apart, Held

\* The inductive invariant of what was pushed: committed and pending texts are
\* in order, hold every event that was not lost, and the pending ones may still
\* change places.
HistoryInv ==
  /\ Ordered(Frozen, log, lost)
  /\ \A n : n \in Happened <=> n \in Held(Frozen) \/ n \in lost
  /\ Held(Frozen) \cap lost = {}
  /\ Apart(pending, log, lost)

\* What is frozen is what was committed, then what is pending.
LEMMA FrozenParts ==
  ASSUME TypeOK
  PROVE  /\ Frozen \in Seq(Texts) /\ Len(Frozen) = Len(committed) + Len(pending)
         /\ \A i \in DOMAIN committed : i \in DOMAIN Frozen /\ Frozen[i] = committed[i]
         /\ \A i \in DOMAIN pending : /\ Len(committed) + i \in DOMAIN Frozen
                                      /\ Frozen[Len(committed) + i] = pending[i]
         /\ \A i \in DOMAIN Frozen : \/ i \in DOMAIN committed
                                     \/ /\ i > Len(committed) /\ i - Len(committed) \in DOMAIN pending
                                        /\ Frozen[i] = pending[i - Len(committed)]
         /\ \A n : n \in Held(Frozen) <=> n \in Held(committed) \/ n \in Held(pending)
<1>1. committed \in Seq(Texts) /\ pending \in Seq(Texts)
  BY TypeParts
<1>2. /\ Frozen \in Seq(Texts) /\ Len(Frozen) = Len(committed) + Len(pending)
      /\ \A i \in DOMAIN committed : i \in DOMAIN Frozen /\ Frozen[i] = committed[i]
      /\ \A i \in DOMAIN pending : /\ Len(committed) + i \in DOMAIN Frozen
                                   /\ Frozen[Len(committed) + i] = pending[i]
      /\ \A i \in DOMAIN Frozen : i \in DOMAIN committed
                                  \/ (i > Len(committed) /\ i - Len(committed) \in DOMAIN pending)
  BY <1>1, Joined DEF Frozen
<1>3. \A i \in DOMAIN Frozen : i - Len(committed) \in DOMAIN pending =>
        Frozen[i] = pending[i - Len(committed)]
  <2> SUFFICES ASSUME NEW i \in DOMAIN Frozen, i - Len(committed) \in DOMAIN pending
               PROVE  Frozen[i] = pending[i - Len(committed)]
    OBVIOUS
  <2>1. Len(committed) + (i - Len(committed)) = i
    BY <1>1, <1>2
  <2> QED
    BY <1>2, <2>1
<1>4. \A n : n \in Held(Frozen) <=> n \in Held(committed) \/ n \in Held(pending)
  BY <1>2, <1>3 DEF Held
<1> QED
  BY <1>2, <1>3, <1>4

\* What pending texts hold is of events that happened.
LEMMA PendingHappened ==
  ASSUME TypeOK, HistoryInv
  PROVE  \A i \in DOMAIN pending : Range(pending[i]) \subseteq 1 .. Len(log)
BY FrozenParts DEF HistoryInv, Ordered

\* Pending texts may cross.
LEMMA PendingCross ==
  ASSUME TypeOK, HistoryInv, NEW p \in DOMAIN pending, NEW q \in DOMAIN pending, q # p,
         NEW e \in Range(pending[q]), NEW d \in Range(pending[p])
  PROVE  MayCross(log, lost, e, d)
<1>1. log[e] # log[d]
  BY DEF HistoryInv, Apart
<1>2. d \in Held(pending) /\ e \in 1 .. Len(log)
  BY PendingHappened DEF Held
<1>3. \A n \in d .. e : n \in lost \/ log[n] \in Streams
  <2>1. \A n \in d .. Len(log) : n \in lost \/ log[n] \in Streams
    BY <1>2 DEF HistoryInv, Apart
  <2>2. d \in 1 .. Len(log)
    BY PendingHappened
  <2> QED
    BY <1>2, <2>1, <2>2
<1> QED
  BY <1>1, <1>3 DEF MayCross

\* An event joins what was pushed, whether it is then committed or not.
LEMMA HistoryGrows ==
  ASSUME TypeOK, HistoryInv, TypeOK', NEW kind \in Kinds, Len(log) < MaxEvents,
         log' = Append(log, kind), lost' = lost,
         NEW G \in Seq(Texts), NEW h, NEW p, Grown(pending, G, h, p, Len(log')),
         Frozen' = committed \o G,
         pending' = <<>> \/ (pending' = G /\ kind \in Streams),
         p = 0 => \A i \in DOMAIN pending : kind \in Streams => ~Mine(pending[i], kind),
         p # 0 => Mine(pending[p], kind)
  PROVE  HistoryInv'
<1> DEFINE n == Len(log')
<1>1. /\ log' \in Seq(Kinds) /\ n = Len(log) + 1 /\ n \in Events /\ log'[n] = kind
      /\ \A i \in Happened : log'[i] = log[i]
      /\ Happened' = Happened \cup {n} /\ n \notin Happened
  BY NextEvent
<1>2. log \in Seq(Kinds) /\ pending \in Seq(Texts) /\ committed \in Seq(Texts)
  BY TypeParts
<1>3. \A i \in 1 .. Len(log) : log'[i] = log[i]
  BY <1>1 DEF Happened
<1> DEFINE r == IF p = 0 THEN 0 ELSE Len(committed) + p
       whole == committed \o G
<1>4. PICK g : Grown(Frozen, whole, g, r, n)
  BY <1>1, <1>2, GrownAfter DEF Frozen
<1>5. Frozen \in Seq(Texts) /\ whole \in Seq(Texts)
  BY <1>2, ConcatProperties, FrozenParts
<1>6. Frozen' = whole
  OBVIOUS
<1>7. p \in 0 .. Len(pending)
  BY DEF Grown
<1>8. ASSUME r # 0, NEW q \in DOMAIN Frozen, q > r,
             NEW e \in Range(Frozen[q]), NEW d \in Range(Frozen[r])
      PROVE  MayCross(log, lost, e, d)
  <2>1. p # 0 /\ r = Len(committed) + p /\ p \in DOMAIN pending
    BY <1>2, <1>7, <1>8
  <2>2. Frozen[r] = pending[p]
    BY <2>1, FrozenParts
  <2>3. Len(committed) \in Nat /\ q \in Nat /\ p \in Nat
    BY <1>2, <1>5, <2>1
  <2>4. q \notin DOMAIN committed
    BY <1>2, <1>8, <2>1, <2>3
  <2>5. q - Len(committed) \in DOMAIN pending /\ Frozen[q] = pending[q - Len(committed)]
    BY <2>4, FrozenParts
  <2>6. q - Len(committed) # p
    BY <1>8, <2>1, <2>3
  <2> QED
    BY <1>8, <2>1, <2>2, <2>5, <2>6, PendingCross
<1> HIDE DEF n, r, whole
<1>9. Ordered(Frozen', log', lost')
  <2>1. Ordered(Frozen, log, lost) /\ Len(log') = n
    BY DEF HistoryInv, n
  <2>2. /\ Frozen \in Seq(Texts) /\ whole \in Seq(Texts) /\ n \in Events
        /\ log \in Seq(Kinds) /\ log' \in Seq(Kinds) /\ n = Len(log) + 1
    BY <1>1, <1>2, <1>5
  <2>3. r # 0 => \A q \in DOMAIN Frozen : q > r =>
          \A e \in Range(Frozen[q]), d \in Range(Frozen[r]) : MayCross(log, lost, e, d)
    BY <1>8
  <2>4. Ordered(whole, log', lost)
    BY ONLY <1>3, <1>4, <2>1, <2>2, <2>3, OrderedGrows
  <2> QED
    BY <1>6, <2>4
<1>10. Held(Frozen') = Held(Frozen) \cup {n}
  <2>1. Held(whole) = Held(Frozen) \cup {n}
    <3>1. whole \in Seq(Texts) /\ n \in Events
      BY <1>1, <1>5
    <3> QED
      BY ONLY <1>4, <1>5, <3>1, GrownHeld
  <2> QED
    BY <1>6, <2>1
<1>11. n \notin lost
  BY <1>1 DEF HistoryInv
<1>12. Apart(pending', log', lost')
  <2>1. CASE pending' = <<>>
    BY <2>1, NoneApart
  <2>2. CASE pending' = G /\ kind \in Streams
    <3>1. \A i \in DOMAIN pending : Range(pending[i]) \subseteq 1 .. Len(log)
      BY PendingHappened
    <3>2. Apart(pending, log, lost)
      BY DEF HistoryInv
    <3>3. \A i \in DOMAIN pending : Head(pending[i]) \in 1 .. Len(log)
      <4> SUFFICES ASSUME NEW i \in DOMAIN pending
                   PROVE  Head(pending[i]) \in 1 .. Len(log)
        OBVIOUS
      <4>1. pending[i] \in Seq(Events) /\ pending[i] # <<>>
        BY <1>2 DEF Texts
      <4>2. Head(pending[i]) \in Range(pending[i])
        BY <4>1 DEF Range
      <4> QED
        BY <3>1, <4>2
    <3>4. /\ p = 0 => \A i \in DOMAIN pending : log[Head(pending[i])] # log'[n]
          /\ p # 0 => log[Head(pending[p])] = log'[n]
      BY <1>1, <2>2 DEF Mine
    <3>5. log'[n] \in Streams /\ Len(log') = n /\ Grown(pending, G, h, p, n)
      BY <1>1, <2>2 DEF n
    <3>6. Apart(G, log', lost)
      <4>1. /\ G \in Seq(Texts) /\ pending \in Seq(Texts) /\ log \in Seq(Kinds)
            /\ log' \in Seq(Kinds) /\ n \in Events /\ n = Len(log) + 1
        BY <1>1, <1>2
      <4> QED
        BY ONLY <1>3, <3>1, <3>2, <3>4, <3>5, <4>1, ApartGrows
    <3> QED
      BY <2>2, <3>6
  <2> QED
    BY <2>1, <2>2
<1>13. \A m : m \in Happened' <=> m \in Held(Frozen') \/ m \in lost'
  BY <1>1, <1>10 DEF HistoryInv
<1>14. Held(Frozen') \cap lost' = {}
  BY <1>10, <1>11 DEF HistoryInv
<1>15. Held(Frozen)' = Held(Frozen')
  BY DEF Held
<1> QED
  BY <1>9, <1>12, <1>13, <1>14, <1>15 DEF HistoryInv

\* The history of a step that pushes nothing and loses nothing.
LEMMA HistorySame ==
  ASSUME HistoryInv, log' = log, lost' = lost, Frozen' = Frozen,
         pending' = pending \/ pending' = <<>>
  PROVE  HistoryInv'
<1>1. Held(Frozen)' = Held(Frozen) /\ Happened' = Happened
  BY DEF Held, Happened
<1>2. Apart(pending', log, lost)
  BY NoneApart DEF HistoryInv
<1> QED
  BY <1>1, <1>2 DEF HistoryInv

\* A commit of what is pending leaves what is frozen as it was.
LEMMA FrozenSame ==
  ASSUME TypeOK, \/ committed' = committed /\ pending' = pending
                 \/ committed' = committed \o pending /\ pending' = <<>>
  PROVE  Frozen' = Frozen
<1>1. committed \in Seq(Texts) /\ pending \in Seq(Texts)
  BY TypeParts
<1>2. CASE committed' = committed \o pending /\ pending' = <<>>
  BY <1>1, <1>2 DEF Frozen
<1> QED
  BY <1>2 DEF Frozen

\* An event that arrives keeps the history.
LEMMA ProduceHistory ==
  ASSUME TypeOK, HistoryInv, TypeOK', NEW kind \in Kinds, Produce(kind)
  PROVE  HistoryInv'
<1> DEFINE n == Len(log')
<1>1. Len(log) < MaxEvents /\ log' = Append(log, kind)
  BY DEF Produce
<1>2. /\ log' \in Seq(Kinds) /\ n = Len(log) + 1 /\ n \in Events /\ log'[n] = kind
      /\ \A i \in Happened : log'[i] = log[i]
      /\ Happened' = Happened \cup {n} /\ n \notin Happened
  BY <1>1, NextEvent
<1>3. pending \in Seq(Texts) /\ committed \in Seq(Texts) /\ log \in Seq(Kinds)
  BY TypeParts
<1>4. <<n>> \in Texts
  BY <1>2 DEF Texts
<1> HIDE DEF n
<1>5. CASE reader = "up" /\ kind \in Streams
  <2>1. PushFragment(n, kind) /\ lost' = lost
    BY <1>5 DEF Produce, n
  <2>2. CASE pending = <<>> /\ Emit(<<<<n>>>>) /\ UNCHANGED pending
    <3>1. Append(pending, <<n>>) \in Seq(Texts)
      BY <1>3, <1>4
    <3>2. PICK h : Grown(pending, Append(pending, <<n>>), h, 0, n)
      BY <1>2, <1>3, BegunGrown
    <3>3. committed' = committed \o Append(pending, <<n>>) /\ pending' = <<>>
      BY <2>2 DEF Emit, Commit
    <3>4. Frozen' = committed \o Append(pending, <<n>>)
      <4>1. committed \o Append(pending, <<n>>) \in Seq(Texts)
        BY <1>3, <3>1, ConcatProperties
      <4> QED
        BY <3>3, <4>1 DEF Frozen
    <3>5. \A i \in DOMAIN pending : ~Mine(pending[i], kind)
      BY <2>2
    <3> QED
      BY <1>1, <2>1, <3>1, <3>2, <3>3, <3>4, <3>5, HistoryGrows DEF n
  <2>3. CASE \/ Emit(Merged(n, kind)) /\ pending' = <<>>
             \/ pending' = Merged(n, kind) /\ UNCHANGED <<replay, latest, committed, wire>>
    <3> DEFINE G == Merged(n, kind)
    <3>1. G \in Seq(Texts)
      BY <1>2, MergedType
    <3>2. PICK h, p : /\ Grown(pending, G, h, p, n)
                      /\ p = 0 => \A i \in DOMAIN pending : ~Mine(pending[i], kind)
                      /\ p # 0 => Mine(pending[p], kind)
      BY <1>2, MergedGrown
    <3>3. pending' = <<>> \/ pending' = G
      BY <2>3
    <3>4. Frozen' = committed \o G
      <4>1. CASE Emit(G) /\ pending' = <<>>
        <5>1. committed' = committed \o G /\ pending' = <<>>
          BY <4>1 DEF Emit, Commit
        <5>2. committed \o G \in Seq(Texts)
          BY <1>3, <3>1, ConcatProperties
        <5> QED
          BY <5>1, <5>2 DEF Frozen
      <4>2. CASE pending' = G /\ committed' = committed
        BY <4>2 DEF Frozen
      <4> QED
        BY <2>3, <4>1, <4>2
    <3> HIDE DEF G
    <3> QED
      BY <1>1, <1>5, <2>1, <3>1, <3>2, <3>3, <3>4, HistoryGrows DEF n
  <2>4. \/ pending = <<>> /\ Emit(<<<<n>>>>) /\ UNCHANGED pending
        \/ Emit(Merged(n, kind)) /\ pending' = <<>>
        \/ pending' = Merged(n, kind) /\ UNCHANGED <<replay, latest, committed, wire>>
    BY <2>1 DEF PushFragment
  <2> QED
    BY <2>2, <2>3, <2>4
<1>6. CASE reader = "up" /\ kind \notin Streams
  <2>1. Emit(Append(pending, <<n>>)) /\ pending' = <<>> /\ lost' = lost
    BY <1>6 DEF Produce, PushBarrier, n
  <2>2. Append(pending, <<n>>) \in Seq(Texts)
    BY <1>3, <1>4
  <2>3. PICK h : Grown(pending, Append(pending, <<n>>), h, 0, n)
    BY <1>2, <1>3, BegunGrown
  <2>4. Frozen' = committed \o Append(pending, <<n>>)
    <3>1. committed \o Append(pending, <<n>>) \in Seq(Texts)
      BY <1>3, <2>2, ConcatProperties
    <3> QED
      BY <2>1, <3>1 DEF Frozen, Emit, Commit
  <2> QED
    BY <1>1, <1>6, <2>1, <2>2, <2>3, <2>4, HistoryGrows DEF n
<1>7. CASE reader # "up"
  <2>1. lost' = lost \cup {n} /\ pending' = pending /\ committed' = committed
    BY <1>7 DEF Produce, n
  <2>2. Frozen' = Frozen /\ Frozen \in Seq(Texts) /\ Held(Frozen)' = Held(Frozen)
    BY <2>1, FrozenParts DEF Frozen, Held
  <2>3. \A i \in 1 .. Len(log) : log'[i] = log[i]
    BY <1>2 DEF Happened
  <2>4. Ordered(Frozen, log', lost')
    <3>1. lost \subseteq lost' /\ Len(log) <= Len(log') /\ Ordered(Frozen, log, lost)
      BY <1>2, <1>3, <2>1 DEF HistoryInv, n
    <3> QED
      BY ONLY <1>2, <1>3, <2>2, <2>3, <3>1, OrderedLater
  <2>5. Apart(pending, log', lost')
    <3>1. \A i \in DOMAIN pending : Range(pending[i]) \subseteq 1 .. Len(log)
      BY PendingHappened
    <3>2. Apart(pending, log, lost) /\ Len(log') = Len(log) + 1
      BY <1>2 DEF HistoryInv, n
    <3>3. Apart(pending, log', lost \cup {Len(log')})
      BY ONLY <1>2, <1>3, <2>3, <3>1, <3>2, ApartLater
    <3> QED
      BY <2>1, <3>3 DEF n
  <2>6. n \notin Held(Frozen)
    BY <1>2 DEF HistoryInv
  <2> QED
    BY <1>2, <2>1, <2>2, <2>4, <2>5, <2>6 DEF HistoryInv
<1> QED
  BY <1>5, <1>6, <1>7

\* The process goes down with what is pending.
LEMMA RestartHistory ==
  ASSUME TypeOK, HistoryInv, log' = log, committed' = committed, pending' = <<>>,
         lost' = lost \cup Held(pending)
  PROVE  HistoryInv'
<1>1. committed \in Seq(Texts) /\ log \in Seq(Kinds) /\ Frozen \in Seq(Texts)
  BY TypeParts, FrozenParts
<1>2. Frozen' = committed
  BY <1>1 DEF Frozen
<1>3. \A i \in DOMAIN committed : i \in DOMAIN Frozen /\ Frozen[i] = committed[i]
  BY FrozenParts
<1>4. Ordered(committed, log, lost)
  <2>1. Ordered(Frozen, log, lost)
    BY DEF HistoryInv
  <2> QED
    BY ONLY <1>1, <1>3, <2>1, OrderedPrefix
<1>5. Ordered(committed, log, lost')
  <2>1. lost \subseteq lost' /\ Len(log) <= Len(log)
    BY <1>1
  <2> QED
    BY ONLY <1>1, <1>4, <2>1, OrderedLater
<1>6. Held(Frozen)' = Held(committed) /\ Happened' = Happened
  BY <1>2 DEF Held, Happened
<1>7. \A n : n \in Held(Frozen) <=> n \in Held(committed) \/ n \in Held(pending)
  BY FrozenParts
<1>8. Held(committed) \cap Held(pending) = {}
  <2> SUFFICES ASSUME NEW i \in DOMAIN committed, NEW j \in DOMAIN pending
               PROVE  Range(committed[i]) \cap Range(pending[j]) = {}
    BY DEF Held
  <2>1. /\ i \in DOMAIN Frozen /\ Frozen[i] = committed[i]
        /\ Len(committed) + j \in DOMAIN Frozen /\ Frozen[Len(committed) + j] = pending[j]
    BY FrozenParts
  <2>2. i # Len(committed) + j
    <3>1. i \in 1 .. Len(committed) /\ j \in 1 .. Len(pending) /\ Len(committed) \in Nat
          /\ Len(pending) \in Nat
      BY TypeParts
    <3> QED
      BY <3>1
  <2> QED
    BY <2>1, <2>2 DEF HistoryInv, Ordered
<1>9. Apart(pending', log', lost')
  BY NoneApart
<1> QED
  BY <1>2, <1>5, <1>6, <1>7, <1>8, <1>9 DEF HistoryInv

\* The history is empty at first.
LEMMA HistoryInit ==
  ASSUME Init
  PROVE  HistoryInv
<1>1. committed = <<>> /\ pending = <<>> /\ log = <<>> /\ lost = {}
  BY DEF Init
<1>2. Frozen = <<>>
  BY <1>1 DEF Frozen
<1>3. Ordered(<<>>, log, lost) /\ Held(<<>>) = {} /\ Happened = {}
  BY <1>1, NothingHeld DEF Ordered, Happened
<1> QED
  BY <1>1, <1>2, <1>3, NoneApart DEF HistoryInv

\* What a step does to the history, when it is not an event of OpenCode.
LEMMA HistorySteps ==
  ASSUME TypeOK, [Next]_vars
  PROVE  \/ \E kind \in Kinds : Produce(kind)
         \/ ServerRestarts
         \/ /\ log' = log /\ lost' = lost
            /\ \/ committed' = committed /\ pending' = pending
               \/ committed' = committed \o pending /\ pending' = <<>>
<1>1. CASE WindowEnds
  BY <1>1 DEF WindowEnds, Emit, Commit
<1>2. CASE Connect
  BY <1>2 DEF Connect
<1>3. CASE UpstreamBreaks
  BY <1>3 DEF UpstreamBreaks
<1>4. CASE InitialError
  BY <1>4 DEF InitialError, hub
<1>5. CASE Rebind
  BY <1>5 DEF Rebind, Emit, Commit
<1>6. ASSUME NEW c \in Clients, Accept(c) \/ SocketCloses(c) \/ Receive(c) \/ Alone(c)
      PROVE  /\ log' = log /\ lost' = lost
             /\ \/ committed' = committed /\ pending' = pending
                \/ committed' = committed \o pending /\ pending' = <<>>
  <2>1. CASE Accept(c)
    BY <2>1 DEF Accept, Commit
  <2>2. CASE SocketCloses(c)
    BY <2>2 DEF SocketCloses, hub
  <2>3. CASE Receive(c)
    BY <2>3 DEF Receive, hub
  <2>4. CASE Alone(c)
    BY <2>4, AloneKeeps DEF hub
  <2> QED
    BY <1>6, <2>1, <2>2, <2>3, <2>4
<1>7. CASE UNCHANGED vars
  BY <1>7 DEF vars, hub
<1> QED
  BY <1>1, <1>2, <1>3, <1>4, <1>5, <1>6, <1>7 DEF Next, Alone

\* Every step keeps the history.
LEMMA HistoryNext ==
  ASSUME TypeOK, HistoryInv, [Next]_vars
  PROVE  HistoryInv'
<1>0. TypeOK'
  BY NextType
<1>1. ASSUME NEW kind \in Kinds, Produce(kind)
      PROVE  HistoryInv'
  BY <1>0, <1>1, ProduceHistory
<1>2. CASE ServerRestarts
  BY <1>2, RestartHistory DEF ServerRestarts
<1>3. CASE /\ log' = log /\ lost' = lost
           /\ \/ committed' = committed /\ pending' = pending
              \/ committed' = committed \o pending /\ pending' = <<>>
  BY <1>3, FrozenSame, HistorySame
<1> QED
  BY <1>1, <1>2, <1>3, HistorySteps

\* The texts committed and pending are in order and disjoint, those pending are
\* each of its own stream with nothing but fragments since they began, and no event
\* that came is in neither, but for those a restart of the server lost: what the
\* delta coalescer's merging and flushing do to the stream.
THEOREM HistoryCorrect == Spec => [](TypeOK /\ HistoryInv)
<1>1. Init => TypeOK /\ HistoryInv
  BY InitType, HistoryInit
<1>2. TypeOK /\ HistoryInv /\ [Next]_vars => (TypeOK /\ HistoryInv)'
  BY NextType, HistoryNext
<1> QED
  BY <1>1, <1>2, PTL DEF Spec

\* The history tells how texts are ordered.
LEMMA OrderInHistory ==
  ASSUME TypeOK, HistoryInv
  PROVE  OrderKept
<1>1. Frozen \in Seq(Texts) /\ DOMAIN Frozen \subseteq Nat
  BY FrozenParts
<1>2. Happened \subseteq Held(Frozen) \cup lost
  BY DEF HistoryInv
<1>3. ASSUME NEW i \in DOMAIN Frozen, NEW j \in DOMAIN Frozen,
             NEW k \in DOMAIN Frozen[i], NEW m \in DOMAIN Frozen[j],
             i < j \/ (i = j /\ k < m)
      PROVE  \/ Frozen[i][k] < Frozen[j][m]
             \/ /\ Frozen[i][k] > Frozen[j][m] /\ log[Frozen[i][k]] # log[Frozen[j][m]]
                /\ \A n \in Frozen[j][m] .. Frozen[i][k] : n \in lost \/ log[n] \in Streams
  <2>1. Ordered(Frozen, log, lost)
    BY DEF HistoryInv
  <2>2. /\ Frozen[i][k] \in Range(Frozen[i]) /\ Frozen[j][m] \in Range(Frozen[j])
        /\ Frozen[i][k] \in Nat /\ Frozen[j][m] \in Nat
    <3>1. Frozen[i] \in Seq(Events) /\ Frozen[j] \in Seq(Events)
      BY <1>1 DEF Texts
    <3>2. Frozen[i][k] \in Events /\ Frozen[j][m] \in Events
      BY <3>1
    <3> QED
      BY <3>2 DEF Range, Events
  <2>3. CASE i = j /\ k < m
    BY <2>1, <2>3 DEF Ordered, Rising
  <2>4. CASE i < j
    <3>1. Range(Frozen[i]) \cap Range(Frozen[j]) = {}
          /\ MayCross(log, lost, Frozen[i][k], Frozen[j][m])
      <4>1. i # j
        BY <1>1, <2>4
      <4> QED
        BY <2>1, <2>2, <2>4, <4>1 DEF Ordered
    <3>2. Frozen[i][k] # Frozen[j][m]
      BY <2>2, <3>1
    <3>3. CASE Frozen[i][k] > Frozen[j][m]
      BY <3>1, <3>3 DEF MayCross
    <3> QED
      BY <2>2, <3>2, <3>3
  <2> QED
    BY <1>3, <2>3, <2>4
<1> QED
  BY <1>2, <1>3 DEF OrderKept

\* Coalescing loses no event and keeps every order that matters: texts of one
\* stream grow in order, and only fragments of different streams with nothing
\* but fragments between them change places.
THEOREM OrderKeptAlways == Spec => []OrderKept
BY HistoryCorrect, OrderInHistory, PTL

\* The ids of committed frames grow, so that a cursor has one place.
THEOREM IdsGrowAlways == Spec => []IdsGrow
<1>1. TypeOK /\ HistoryInv => IdsGrow
  <2> SUFFICES ASSUME TypeOK, HistoryInv, NEW i \in DOMAIN committed, NEW j \in DOMAIN committed,
                      i < j
               PROVE  Last(committed[i]) < Last(committed[j])
    BY DEF IdsGrow
  <2>1. /\ i \in DOMAIN Frozen /\ Frozen[i] = committed[i]
        /\ j \in DOMAIN Frozen /\ Frozen[j] = committed[j]
    BY FrozenParts
  <2> QED
    BY <2>1 DEF HistoryInv, Ordered
<1> QED
  BY <1>1, HistoryCorrect, PTL

-----------------------------------------------------------------------------
(* The replay buffer *)

\* The buffer is the end of what was committed, and latest the id of its last
\* frame unless the process started again since.
ReplayInv ==
  /\ Len(replay) <= Len(committed)
  /\ \A i \in DOMAIN replay : replay[i] = committed[Len(committed) - Len(replay) + i]
  /\ latest # NoCursor => committed # <<>> /\ latest = Last(Last(committed))

\* What a step does to the buffer.
LEMMA HubSteps ==
  ASSUME TypeOK, [Next]_vars
  PROVE  \/ UNCHANGED <<committed, replay, latest>>
         \/ committed' = committed /\ replay' = <<>> /\ latest' = NoCursor
         \/ \E texts \in Seq(Texts) : Commit(texts)
<1> DEFINE Same == UNCHANGED <<committed, replay, latest>>
           More == \E texts \in Seq(Texts) : Commit(texts)
<1>0. pending \in Seq(Texts)
  BY TypeParts
<1>1. ASSUME NEW kind \in Kinds, Produce(kind)
      PROVE  Same \/ More
  <2> DEFINE n == Len(log')
  <2>1. n \in Events
    BY <1>1, NextEvent DEF Produce
  <2>2. <<n>> \in Texts
    BY <2>1 DEF Texts
  <2>3. <<<<n>>>> \in Seq(Texts) /\ Append(pending, <<n>>) \in Seq(Texts)
        /\ Merged(n, kind) \in Seq(Texts)
    BY <1>0, <2>1, <2>2, MergedType
  <2> HIDE DEF n
  <2>4. \/ PushFragment(n, kind) \/ PushBarrier(n)
        \/ UNCHANGED <<pending, replay, latest, committed, wire>>
    BY <1>1 DEF Produce, n
  <2>5. CASE PushFragment(n, kind)
    <3>1. \/ Emit(<<<<n>>>>) \/ Emit(Merged(n, kind))
          \/ UNCHANGED <<replay, latest, committed, wire>>
      BY <2>5 DEF PushFragment
    <3>2. \/ Commit(<<<<n>>>>) \/ Commit(Merged(n, kind))
          \/ UNCHANGED <<replay, latest, committed, wire>>
      BY <3>1 DEF Emit
    <3> QED
      BY <2>3, <3>2
  <2>6. CASE PushBarrier(n)
    <3>1. Commit(Append(pending, <<n>>))
      BY <2>6 DEF PushBarrier, Emit
    <3> QED
      BY <2>3, <3>1
  <2> QED
    BY <2>4, <2>5, <2>6
<1>2. CASE WindowEnds
  <2>1. Commit(pending)
    BY <1>2 DEF WindowEnds, Emit
  <2> QED
    BY <1>0, <2>1
<1>3. CASE Connect
  BY <1>3 DEF Connect
<1>4. CASE UpstreamBreaks
  BY <1>4 DEF UpstreamBreaks
<1>5. CASE InitialError
  BY <1>5 DEF InitialError, hub
<1>6. CASE Rebind
  <2>1. Commit(pending)
    BY <1>6 DEF Rebind, Emit
  <2> QED
    BY <1>0, <2>1
<1>7. CASE ServerRestarts
  BY <1>7 DEF ServerRestarts
<1>8. ASSUME NEW c \in Clients, Accept(c) \/ SocketCloses(c) \/ Receive(c) \/ Alone(c)
      PROVE  Same \/ More
  <2>1. CASE Accept(c)
    <3>1. Commit(pending) \/ Same
      BY <2>1 DEF Accept
    <3> QED
      BY <1>0, <3>1
  <2>2. CASE SocketCloses(c)
    BY <2>2 DEF SocketCloses, hub
  <2>3. CASE Receive(c)
    BY <2>3 DEF Receive, hub
  <2>4. CASE Alone(c)
    BY <2>4, AloneKeeps DEF hub
  <2> QED
    BY <1>8, <2>1, <2>2, <2>3, <2>4
<1>9. CASE UNCHANGED vars
  BY <1>9 DEF vars, hub
<1> QED
  BY <1>1, <1>2, <1>3, <1>4, <1>5, <1>6, <1>7, <1>8, <1>9 DEF Next, Alone

\* A commit leaves the replay the end of what was committed.
LEMMA CommitReplay ==
  ASSUME TypeOK, ReplayInv, NEW texts \in Seq(Texts), Commit(texts)
  PROVE  ReplayInv'
<1> DEFINE all == replay \o texts
           offset == Len(committed) - Len(replay)
<1>1. /\ replay \in Seq(Texts) /\ committed \in Seq(Texts) /\ Len(replay) \in Nat
      /\ Len(committed) \in Nat /\ Len(texts) \in Nat /\ all \in Seq(Texts)
      /\ Len(all) = Len(replay) + Len(texts)
  BY TypeParts
<1>2. /\ committed' = committed \o texts /\ Len(committed') = Len(committed) + Len(texts)
      /\ committed' \in Seq(Texts)
  BY <1>1 DEF Commit
<1>3. \A j \in 1 .. Len(all) : all[j] = committed'[offset + j]
  <2> SUFFICES ASSUME NEW j \in 1 .. Len(all)
               PROVE  all[j] = committed'[offset + j]
    OBVIOUS
  <2>0. offset \in Nat
    BY <1>1 DEF ReplayInv
  <2>1. CASE j <= Len(replay)
    <3>1. all[j] = replay[j] /\ j \in DOMAIN replay
      BY <1>1, <2>1
    <3>2. offset + j \in DOMAIN committed
      BY <1>1, <2>0, <2>1
    <3>3. committed'[offset + j] = committed[offset + j]
      BY <1>1, <1>2, <3>2
    <3> QED
      BY <3>1, <3>3 DEF ReplayInv
  <2>2. CASE j > Len(replay)
    <3>1. j - Len(replay) \in 1 .. Len(texts) /\ all[j] = texts[j - Len(replay)]
      BY <1>1, <2>2
    <3>2. offset + j = Len(committed) + (j - Len(replay))
      BY <1>1
    <3>3. committed'[Len(committed) + (j - Len(replay))] = texts[j - Len(replay)]
      BY <1>1, <1>2, <3>1, Joined
    <3> QED
      BY <3>1, <3>2, <3>3
  <2> QED
    BY <1>1, <2>1, <2>2
<1>4. PICK k \in 1 .. Len(all) + 1 : replay' = SubSeq(all, k, Len(all))
  BY <1>1, RetainedEnd DEF Commit
<1>5. /\ Len(replay') = Len(all) + 1 - k
      /\ \A i \in 1 .. Len(all) + 1 - k : replay'[i] = all[k + i - 1]
      /\ DOMAIN replay' = 1 .. Len(all) + 1 - k
  BY <1>1, <1>4, EndOf
<1> HIDE DEF all
<1>6. ASSUME NEW i \in DOMAIN replay'
      PROVE  replay'[i] = committed'[Len(committed') - Len(replay') + i]
  <2>0. i \in 1 .. Len(all) + 1 - k /\ k \in 1 .. Len(all) + 1 /\ Len(all) \in Nat
    BY <1>1, <1>5
  <2>1. k + i - 1 \in 1 .. Len(all) /\ replay'[i] = all[k + i - 1]
    BY <1>5, <2>0
  <2>2. offset + (k + i - 1) = Len(committed') - Len(replay') + i
    <3>1. k \in Nat /\ i \in Nat
      BY <2>0
    <3>2. /\ Len(committed') = Len(committed) + Len(texts)
          /\ Len(replay') = Len(replay) + Len(texts) + 1 - k
      BY <1>1, <1>2, <1>5
    <3>3. \A a, b, t, x, y \in Nat :
            (a - b) + (x + y - 1) = (a + t) - (b + t + 1 - x) + y
      OBVIOUS
    <3>4. (Len(committed) - Len(replay)) + (k + i - 1)
            = (Len(committed) + Len(texts)) - (Len(replay) + Len(texts) + 1 - k) + i
      BY <1>1, <3>1, <3>3
    <3> QED
      BY <3>2, <3>4
  <2> QED
    BY <1>3, <2>1, <2>2
<1>7. Len(replay') <= Len(committed')
  BY <1>1, <1>2, <1>5 DEF ReplayInv
<1>8. latest' # NoCursor => committed' # <<>> /\ latest' = Last(Last(committed'))
  <2>1. CASE texts = <<>>
    <3>1. committed' = committed /\ latest' = latest
      BY <1>1, <1>2, <2>1 DEF Commit
    <3> QED
      BY <3>1 DEF ReplayInv
  <2>2. CASE texts # <<>>
    <3>1. committed' # <<>> /\ Last(committed') = Last(texts)
      BY <1>1, <1>2, <2>2 DEF Last
    <3> QED
      BY <2>2, <3>1 DEF Commit
  <2> QED
    BY <2>1, <2>2
<1> QED
  BY <1>6, <1>7, <1>8 DEF ReplayInv

\* Every step keeps the replay the end of what was committed.
LEMMA ReplayNext ==
  ASSUME TypeOK, ReplayInv, [Next]_vars
  PROVE  ReplayInv'
<1>1. CASE UNCHANGED <<committed, replay, latest>>
  BY <1>1 DEF ReplayInv
<1>2. CASE committed' = committed /\ replay' = <<>> /\ latest' = NoCursor
  <2>1. Len(committed) \in Nat /\ Len(<<>>) = 0
    BY TypeParts
  <2> QED
    BY <1>2, <2>1 DEF ReplayInv
<1>3. ASSUME NEW texts \in Seq(Texts), Commit(texts)
      PROVE  ReplayInv'
  BY <1>3, CommitReplay
<1> QED
  BY <1>1, <1>2, <1>3, HubSteps

\* The replay buffer is always the end of what the hub committed, of the length that
\* eviction leaves.
THEOREM ReplayCorrect == Spec => []ReplayInv
<1>1. Init => ReplayInv
  BY EmptySeq DEF Init, ReplayInv
<1>2. TypeOK /\ ReplayInv /\ [Next]_vars => ReplayInv'
  BY ReplayNext
<1> QED
  BY <1>1, <1>2, TypeCorrect, PTL DEF Spec

\* Reading sequences from their ends, one is a prefix of the other.
LEMMA SuffixFromEnd ==
  ASSUME NEW S, NEW s \in Seq(S), NEW t \in Seq(S), Len(s) <= Len(t),
         \A i \in DOMAIN s : s[i] = t[Len(t) - Len(s) + i]
  PROVE  IsSuffix(s, t)
<1>1. Len(s) \in Nat /\ Len(t) \in Nat /\ DOMAIN s = 1 .. Len(s) /\ DOMAIN t = 1 .. Len(t)
  OBVIOUS
<1>2. /\ Len(Reverse(s)) = Len(s) /\ \A i \in 1 .. Len(s) : Reverse(s)[i] = s[Len(s) - i + 1]
      /\ Len(Reverse(t)) = Len(t) /\ \A i \in 1 .. Len(t) : Reverse(t)[i] = t[Len(t) - i + 1]
      /\ DOMAIN Reverse(s) = 1 .. Len(s) /\ DOMAIN Reverse(t) = 1 .. Len(t)
  BY <1>1 DEF Reverse
<1>3. ASSUME NEW i \in 1 .. Len(s)
      PROVE  Reverse(s)[i] = Reverse(t)[i]
  <2>1. Len(s) - i + 1 \in DOMAIN s /\ i \in 1 .. Len(t)
    BY <1>1
  <2>2. Len(t) - Len(s) + (Len(s) - i + 1) = Len(t) - i + 1
    BY <1>1
  <2> QED
    BY <1>2, <2>1, <2>2
<1> QED
  BY <1>1, <1>2, <1>3 DEF IsSuffix, IsPrefix

\* The buffer holds the latest frames without a hole.
THEOREM ReplayContiguousAlways == Spec => []ReplayContiguous
<1>1. TypeOK /\ ReplayInv => ReplayContiguous
  BY TypeParts, SuffixFromEnd DEF ReplayInv, ReplayContiguous
<1> QED
  BY <1>1, TypeCorrect, ReplayCorrect, PTL

-----------------------------------------------------------------------------
(* Frames on their way *)

\* A frame of an event, not one of the connection.
IsEvent(frame) == frame.type = "event"

\* The ids of texts grow.
Growing(texts) == \A i, j \in DOMAIN texts : i < j => Last(texts[i]) < Last(texts[j])

\* The events of frames were committed, come after the cursor, and grow.
Line(frames, id, texts) ==
  /\ \A k \in DOMAIN frames : IsEvent(frames[k]) =>
       frames[k].text \in Range(texts) /\ id < Last(frames[k].text)
  /\ \A k, m \in DOMAIN frames : k < m /\ IsEvent(frames[k]) /\ IsEvent(frames[m]) =>
       Last(frames[k].text) < Last(frames[m].text)

\* A text is behind the cursor and the frames on their way.
Behind(text, frames, id) ==
  /\ id # NoCursor => Last(text) <= id
  /\ \A k \in DOMAIN frames : IsEvent(frames[k]) => Last(text) < Last(frames[k].text)

\* The last event of a text is its id.
LEMMA LastEvent ==
  ASSUME NEW text \in Texts
  PROVE  Last(text) \in Events /\ Last(text) \in Nat /\ Last(text) \in Range(text)
         /\ 0 < Last(text)
<1>1. Last(text) \in Events /\ Last(text) \in Range(text)
  BY LastOf DEF Texts
<1> QED
  BY <1>1 DEF Events

\* A ready frame is no event.
LEMMA ReadyFrame ==
  ASSUME NEW reset \in BOOLEAN
  PROVE  /\ Ready(reset) \in Seq(Frames) /\ Ready(reset) # <<>> /\ Len(Ready(reset)) = 1
         /\ Head(Ready(reset)) = Ready(reset)[1]
         /\ Ready(reset)[1].replayReset = reset /\ ~IsEvent(Ready(reset)[1])
         /\ \A k \in DOMAIN Ready(reset) : ~IsEvent(Ready(reset)[k])
BY FrameTypes DEF Ready, IsEvent

\* Frames followed by a ready.
LEMMA ReadyJoined ==
  ASSUME NEW frames \in Seq(Frames), NEW reset \in BOOLEAN
  PROVE  /\ frames \o Ready(reset) \in Seq(Frames)
         /\ \A k \in DOMAIN frames : /\ k \in DOMAIN (frames \o Ready(reset))
                                     /\ (frames \o Ready(reset))[k] = frames[k]
         /\ Len(frames) + 1 \in DOMAIN (frames \o Ready(reset))
         /\ ~IsEvent((frames \o Ready(reset))[Len(frames) + 1])
         /\ \A k \in DOMAIN (frames \o Ready(reset)) : k \in DOMAIN frames \/ k = Len(frames) + 1
<1> DEFINE note == Ready(reset)
           all == frames \o note
<1>1. note \in Seq(Frames) /\ DOMAIN note = {1} /\ ~IsEvent(note[1])
  <2>1. DOMAIN note = {1}
    BY DEF Ready
  <2> QED
    BY <2>1, ReadyFrame
<1> HIDE DEF note
<1>2. /\ all \in Seq(Frames)
      /\ \A k \in DOMAIN frames : k \in DOMAIN all /\ all[k] = frames[k]
      /\ \A i \in DOMAIN note : Len(frames) + i \in DOMAIN all /\ all[Len(frames) + i] = note[i]
      /\ \A k \in DOMAIN all : k \in DOMAIN frames
                                \/ (k > Len(frames) /\ k - Len(frames) \in DOMAIN note)
  BY <1>1, Joined
<1> HIDE DEF all
<1>3. ASSUME NEW k \in DOMAIN all, k - Len(frames) \in DOMAIN note
      PROVE  k = Len(frames) + 1
  <2>1. k - Len(frames) = 1 /\ k \in Nat /\ Len(frames) \in Nat
    BY <1>1, <1>2, <1>3
  <2> QED
    BY <2>1
<1>4. Len(frames) + 1 \in DOMAIN all /\ ~IsEvent(all[Len(frames) + 1])
  BY <1>1, <1>2
<1> QED
  BY <1>2, <1>3, <1>4 DEF all, note

\* Frames followed by those of texts.
LEMMA FramesJoined ==
  ASSUME NEW frames \in Seq(Frames), NEW texts \in Seq(Texts)
  PROVE  /\ frames \o EventFrames(texts) \in Seq(Frames)
         /\ \A k \in DOMAIN frames : /\ k \in DOMAIN (frames \o EventFrames(texts))
                                     /\ (frames \o EventFrames(texts))[k] = frames[k]
         /\ \A i \in DOMAIN texts :
              /\ Len(frames) + i \in DOMAIN (frames \o EventFrames(texts))
              /\ IsEvent((frames \o EventFrames(texts))[Len(frames) + i])
              /\ (frames \o EventFrames(texts))[Len(frames) + i].text = texts[i]
         /\ \A k \in DOMAIN (frames \o EventFrames(texts)) :
              \/ k \in DOMAIN frames
              \/ \E i \in DOMAIN texts : k = Len(frames) + i
<1> DEFINE more == EventFrames(texts)
<1>1. more \in Seq(Frames) /\ DOMAIN more = DOMAIN texts /\ Len(more) = Len(texts)
  <2>1. more \in Seq(Frames)
    BY EventFramesType
  <2>2. DOMAIN more = DOMAIN texts
    BY DEF EventFrames
  <2> QED
    BY <2>1, <2>2
<1>2. \A i \in DOMAIN texts : IsEvent(more[i]) /\ more[i].text = texts[i]
  BY DEF EventFrames, IsEvent
<1> HIDE DEF more
<1>3. /\ frames \o more \in Seq(Frames)
      /\ \A k \in DOMAIN frames : k \in DOMAIN (frames \o more) /\ (frames \o more)[k] = frames[k]
      /\ \A i \in DOMAIN more : /\ Len(frames) + i \in DOMAIN (frames \o more)
                                /\ (frames \o more)[Len(frames) + i] = more[i]
      /\ \A k \in DOMAIN (frames \o more) :
           k \in DOMAIN frames \/ (k > Len(frames) /\ k - Len(frames) \in DOMAIN more)
  BY <1>1, Joined
<1>4. ASSUME NEW k \in DOMAIN (frames \o more), k - Len(frames) \in DOMAIN texts
      PROVE  \E i \in DOMAIN texts : k = Len(frames) + i
  <2>1. k \in Nat /\ Len(frames) \in Nat
    BY <1>3
  <2>2. k = Len(frames) + (k - Len(frames))
    BY <2>1
  <2> QED
    BY <1>4, <2>2
<1> QED
  BY <1>1, <1>2, <1>3, <1>4 DEF more

\* The two sequences, one after the other, are the third.
Joins(s, t, both) == both = s \o t

\* Committed texts may be sent, or not.
LEMMA LineSent ==
  ASSUME NEW C \in Seq(Texts), NEW T \in Seq(Texts), NEW W \in Seq(Texts), Joins(C, T, W), Growing(W),
         NEW frames \in Seq(Frames), NEW id \in Events \cup {NoCursor},
         NEW more \in Seq(Frames), Joins(frames, EventFrames(T), more),
         id = NoCursor \/ \E i \in DOMAIN C : id = Last(C[i]),
         Line(frames, id, C)
  PROVE  /\ Line(frames, id, W) /\ Line(more, id, W)
         /\ \A i \in DOMAIN C : Behind(C[i], frames, id) => Behind(C[i], more, id)
<1>1. /\ \A i \in DOMAIN C : i \in DOMAIN W /\ W[i] = C[i]
      /\ \A i \in DOMAIN T : Len(C) + i \in DOMAIN W /\ W[Len(C) + i] = T[i]
  BY Joined DEF Joins
<1>2. /\ \A k \in DOMAIN frames : k \in DOMAIN more /\ more[k] = frames[k]
      /\ \A i \in DOMAIN T : /\ Len(frames) + i \in DOMAIN more /\ IsEvent(more[Len(frames) + i])
                             /\ more[Len(frames) + i].text = T[i]
      /\ \A k \in DOMAIN more : k \in DOMAIN frames \/ \E i \in DOMAIN T : k = Len(frames) + i
  BY FramesJoined DEF Joins
<1>3. Len(C) \in Nat /\ DOMAIN C = 1 .. Len(C) /\ DOMAIN T \subseteq Nat \ {0}
      /\ DOMAIN frames = 1 .. Len(frames) /\ Len(frames) \in Nat
  OBVIOUS
<1>4. \A i \in DOMAIN C, j \in DOMAIN T : Last(C[i]) < Last(T[j])
  <2> SUFFICES ASSUME NEW i \in DOMAIN C, NEW j \in DOMAIN T
               PROVE  Last(C[i]) < Last(T[j])
    OBVIOUS
  <2>1. i < Len(C) + j
    BY <1>3
  <2> QED
    BY <1>1, <2>1 DEF Growing
<1>5. \A i, j \in DOMAIN T : i < j => Last(T[i]) < Last(T[j])
  <2> SUFFICES ASSUME NEW i \in DOMAIN T, NEW j \in DOMAIN T, i < j
               PROVE  Last(T[i]) < Last(T[j])
    OBVIOUS
  <2>1. Len(C) + i < Len(C) + j
    BY <1>3
  <2> QED
    BY <1>1, <2>1 DEF Growing
<1>6. \A t \in Range(C) : t \in Range(W)
  BY <1>1 DEF Range
<1>7. \A j \in DOMAIN T : T[j] \in Range(W)
  BY <1>1 DEF Range
<1>8. Line(frames, id, W)
  BY <1>6 DEF Line
<1>9. \A t \in Range(C), j \in DOMAIN T : Last(t) < Last(T[j])
  BY <1>4 DEF Range
<1>10. \A j \in DOMAIN T : id < Last(T[j])
  <2> SUFFICES ASSUME NEW j \in DOMAIN T
               PROVE  id < Last(T[j])
    OBVIOUS
  <2>1. CASE id = NoCursor
    <3>1. T[j] \in Texts
      OBVIOUS
    <3> QED
      BY <2>1, <3>1, LastEvent DEF NoCursor
  <2>2. CASE \E i \in DOMAIN C : id = Last(C[i])
    BY <1>4, <2>2
  <2> QED
    BY <2>1, <2>2
<1>11. \A k \in DOMAIN more : IsEvent(more[k]) =>
         more[k].text \in Range(W) /\ id < Last(more[k].text)
  BY <1>2, <1>7, <1>8, <1>10 DEF Line
<1>12. ASSUME NEW k \in DOMAIN more, NEW m \in DOMAIN more, k < m,
              IsEvent(more[k]), IsEvent(more[m])
       PROVE  Last(more[k].text) < Last(more[m].text)
  <2>1. CASE m \in DOMAIN frames
    <3>1. k \in DOMAIN frames
      <4>1. \A i \in DOMAIN T : k # Len(frames) + i
        BY <1>3, <1>12, <2>1
      <4> QED
        BY <1>2, <4>1
    <3> QED
      BY <1>2, <1>12, <2>1, <3>1 DEF Line
  <2>2. ASSUME NEW j \in DOMAIN T, m = Len(frames) + j
        PROVE  Last(more[k].text) < Last(more[m].text)
    <3>1. CASE k \in DOMAIN frames
      <4>1. more[k].text \in Range(C) /\ more[m].text = T[j]
        BY <1>2, <1>12, <2>2, <3>1 DEF Line
      <4> QED
        BY <1>9, <4>1
    <3>2. ASSUME NEW i \in DOMAIN T, k = Len(frames) + i
          PROVE  Last(more[k].text) < Last(more[m].text)
      <4>1. i < j
        BY <1>3, <1>12, <2>2, <3>2
      <4> QED
        BY <1>2, <1>5, <2>2, <3>2, <4>1
    <3> QED
      BY <1>2, <3>1, <3>2
  <2> QED
    BY <1>2, <2>1, <2>2
<1>13. ASSUME NEW i \in DOMAIN C, Behind(C[i], frames, id)
       PROVE  Behind(C[i], more, id)
  <2>1. \A k \in DOMAIN more : IsEvent(more[k]) => Last(C[i]) < Last(more[k].text)
    BY <1>2, <1>4, <1>13 DEF Behind
  <2> QED
    BY <1>13, <2>1 DEF Behind
<1> QED
  BY <1>8, <1>11, <1>12, <1>13 DEF Line

\* A ready, and what the buffer has after its p-th text.
Resumes(frames, buffer, p) ==
  /\ frames \in Seq(Frames) /\ frames # <<>> /\ ~IsEvent(frames[1]) /\ ~frames[1].replayReset
  /\ \A i \in p + 1 .. Len(buffer) :
       /\ 1 + (i - p) \in DOMAIN frames /\ IsEvent(frames[1 + (i - p)])
       /\ frames[1 + (i - p)].text = buffer[i]
  /\ \A k \in DOMAIN frames : k = 1 \/ \E i \in p + 1 .. Len(buffer) : k = 1 + (i - p)

\* The frames a client is greeted with: a ready alone, or followed by what the
\* buffer has after the cursor.
LEMMA GreetingCases ==
  ASSUME NEW id, NEW buffer \in Seq(Texts), NEW newest, NEW frames,
         frames = Greeting(id, buffer, newest)
  PROVE  \/ id \in {NoCursor, newest} /\ frames = Ready(FALSE)
         \/ frames = Ready(TRUE)
         \/ /\ id \notin {NoCursor, newest}
            /\ \E p \in DOMAIN buffer :
                 Last(buffer[p]) = id /\ Resumes(frames, buffer, p)
<1> DEFINE at == {i \in DOMAIN buffer : Last(buffer[i]) = id}
<1>1. CASE id \notin {NoCursor, newest} /\ at # {}
  <2> DEFINE p == CHOOSE i \in at : TRUE
             rest == SubSeq(buffer, 1 + p, Len(buffer))
  <2>1. p \in DOMAIN buffer /\ Last(buffer[p]) = id
    BY <1>1
  <2>2. frames = Ready(FALSE) \o EventFrames(rest)
    BY <1>1 DEF Greeting
  <2> HIDE DEF p
  <2>3. p \in 1 .. Len(buffer) /\ Len(buffer) \in Nat /\ 1 + p \in 1 .. Len(buffer) + 1
    BY <2>1
  <2>4. /\ rest \in Seq(Texts) /\ Len(rest) = Len(buffer) + 1 - (1 + p)
        /\ \A i \in 1 .. Len(buffer) + 1 - (1 + p) : rest[i] = buffer[(1 + p) + i - 1]
    BY <2>3, EndOf
  <2> HIDE DEF rest
  <2>5. DOMAIN rest = 1 .. Len(buffer) - p
    BY <2>3, <2>4
  <2>6. /\ Ready(FALSE) \in Seq(Frames) /\ Len(Ready(FALSE)) = 1
        /\ ~IsEvent(Ready(FALSE)[1]) /\ ~Ready(FALSE)[1].replayReset
        /\ DOMAIN Ready(FALSE) = {1}
    <3>1. /\ Ready(FALSE) \in Seq(Frames) /\ Len(Ready(FALSE)) = 1
          /\ ~IsEvent(Ready(FALSE)[1]) /\ ~Ready(FALSE)[1].replayReset
      BY ReadyFrame
    <3>2. DOMAIN Ready(FALSE) = {1}
      BY DEF Ready
    <3> QED
      BY <3>1, <3>2
  <2>7. /\ frames \in Seq(Frames)
        /\ 1 \in DOMAIN frames /\ frames[1] = Ready(FALSE)[1]
        /\ \A i \in DOMAIN rest : /\ 1 + i \in DOMAIN frames /\ IsEvent(frames[1 + i])
                                  /\ frames[1 + i].text = rest[i]
        /\ \A k \in DOMAIN frames : k = 1 \/ \E i \in DOMAIN rest : k = 1 + i
    <3> DEFINE all == Ready(FALSE) \o EventFrames(rest)
    <3>1. /\ all \in Seq(Frames)
          /\ \A k \in DOMAIN Ready(FALSE) : k \in DOMAIN all /\ all[k] = Ready(FALSE)[k]
          /\ \A i \in DOMAIN rest : /\ Len(Ready(FALSE)) + i \in DOMAIN all
                                    /\ IsEvent(all[Len(Ready(FALSE)) + i])
                                    /\ all[Len(Ready(FALSE)) + i].text = rest[i]
          /\ \A k \in DOMAIN all : \/ k \in DOMAIN Ready(FALSE)
                                   \/ \E i \in DOMAIN rest : k = Len(Ready(FALSE)) + i
      BY <2>4, <2>6, FramesJoined
    <3>2. frames = all
      BY <2>2
    <3> HIDE DEF all
    <3>3. 1 \in DOMAIN all /\ all[1] = Ready(FALSE)[1]
      BY <2>6, <3>1
    <3>4. \A i \in DOMAIN rest : /\ 1 + i \in DOMAIN all /\ IsEvent(all[1 + i])
                                 /\ all[1 + i].text = rest[i]
      BY <2>6, <3>1
    <3>5. \A k \in DOMAIN all : k = 1 \/ \E i \in DOMAIN rest : k = 1 + i
      BY <2>6, <3>1
    <3> QED
      BY <3>1, <3>2, <3>3, <3>4, <3>5
  <2>8. ASSUME NEW i \in p + 1 .. Len(buffer)
        PROVE  /\ 1 + (i - p) \in DOMAIN frames /\ IsEvent(frames[1 + (i - p)])
               /\ frames[1 + (i - p)].text = buffer[i]
    <3>1. /\ i - p \in DOMAIN rest /\ i - p \in 1 .. Len(buffer) + 1 - (1 + p)
          /\ (1 + p) + (i - p) - 1 = i
      BY <2>3, <2>5
    <3>2. rest[i - p] = buffer[i]
      <4>1. rest[i - p] = buffer[(1 + p) + (i - p) - 1]
        BY <2>4, <3>1
      <4> QED
        BY <3>1, <4>1
    <3> QED
      BY <2>7, <3>1, <3>2
  <2>9. ASSUME NEW k \in DOMAIN frames, k # 1
        PROVE  \E i \in p + 1 .. Len(buffer) : k = 1 + (i - p)
    <3>1. PICK j \in DOMAIN rest : k = 1 + j
      BY <2>7, <2>9
    <3>2. p + j \in p + 1 .. Len(buffer) /\ k = 1 + ((p + j) - p)
      BY <2>3, <2>5, <3>1
    <3> QED
      BY <3>2
  <2>10. frames # <<>>
    BY <2>7
  <2>11. Resumes(frames, buffer, p)
    BY <2>6, <2>7, <2>8, <2>9, <2>10 DEF Resumes
  <2> QED
    BY <1>1, <2>1, <2>11
<1> QED
  BY <1>1 DEF Greeting

\* A client is greeted with frames after its cursor only.
LEMMA LineGreeting ==
  ASSUME NEW C \in Seq(Texts), Growing(C), NEW buffer \in Seq(Texts), Len(buffer) <= Len(C),
         \A i \in DOMAIN buffer : buffer[i] = C[Len(C) - Len(buffer) + i],
         NEW id \in Events \cup {NoCursor}, NEW newest, NEW frames,
         frames = Greeting(id, buffer, newest)
  PROVE  /\ Line(frames, id, C)
         /\ \A i \in DOMAIN C : Behind(C[i], <<>>, id) => Behind(C[i], frames, id)
<1>1. CASE frames = Ready(FALSE) \/ frames = Ready(TRUE)
  <2>1. \A k \in DOMAIN frames : ~IsEvent(frames[k])
    BY <1>1, ReadyFrame
  <2> QED
    BY <2>1 DEF Line, Behind
<1>2. ASSUME id \notin {NoCursor, newest}, NEW p \in DOMAIN buffer, Last(buffer[p]) = id,
             Resumes(frames, buffer, p)
      PROVE  /\ Line(frames, id, C)
             /\ \A i \in DOMAIN C : Behind(C[i], <<>>, id) => Behind(C[i], frames, id)
  <2> DEFINE offset == Len(C) - Len(buffer)
  <2>1. offset \in Nat /\ Len(C) \in Nat /\ Len(buffer) \in Nat /\ p \in 1 .. Len(buffer)
        /\ offset + Len(buffer) = Len(C)
    OBVIOUS
  <2> HIDE DEF offset
  <2>2. \A i \in 1 .. Len(buffer) : offset + i \in DOMAIN C /\ buffer[i] = C[offset + i]
    <3> SUFFICES ASSUME NEW i \in 1 .. Len(buffer)
                 PROVE  offset + i \in DOMAIN C /\ buffer[i] = C[offset + i]
      OBVIOUS
    <3>1. offset + i \in 1 .. Len(C)
      BY <2>1
    <3>2. i \in DOMAIN buffer
      OBVIOUS
    <3>3. buffer[i] = C[Len(C) - Len(buffer) + i]
      BY <3>2
    <3> QED
      BY <3>1, <3>3 DEF offset
  <2>3. \A i, j \in 1 .. Len(buffer) : i < j => Last(buffer[i]) < Last(buffer[j])
    <3> SUFFICES ASSUME NEW i \in 1 .. Len(buffer), NEW j \in 1 .. Len(buffer), i < j
                 PROVE  Last(buffer[i]) < Last(buffer[j])
      OBVIOUS
    <3>1. offset + i < offset + j
      BY <2>1
    <3> QED
      BY <2>2, <3>1 DEF Growing
  <2>4. ASSUME NEW k \in DOMAIN frames, IsEvent(frames[k])
        PROVE  \E i \in p + 1 .. Len(buffer) : k = 1 + (i - p) /\ frames[k].text = buffer[i]
    <3>1. k # 1
      BY <1>2, <2>4 DEF Resumes
    <3>2. PICK i \in p + 1 .. Len(buffer) : k = 1 + (i - p)
      BY <1>2, <3>1 DEF Resumes
    <3>3. frames[k].text = buffer[i]
      BY <1>2, <3>2 DEF Resumes
    <3> QED
      BY <3>2, <3>3
  <2>5. \A i \in p + 1 .. Len(buffer) : i \in 1 .. Len(buffer) /\ p < i
    BY <2>1
  <2>6. \A i \in p + 1 .. Len(buffer) : buffer[i] \in Range(C) /\ id < Last(buffer[i])
    <3> SUFFICES ASSUME NEW i \in p + 1 .. Len(buffer)
                 PROVE  buffer[i] \in Range(C) /\ id < Last(buffer[i])
      OBVIOUS
    <3>1. i \in 1 .. Len(buffer) /\ p < i
      BY <2>5
    <3>2. buffer[i] \in Range(C)
      BY <2>2, <3>1 DEF Range
    <3> QED
      BY <1>2, <2>1, <2>3, <3>1, <3>2
  <2>7. ASSUME NEW k \in DOMAIN frames, NEW m \in DOMAIN frames, k < m,
               IsEvent(frames[k]), IsEvent(frames[m])
        PROVE  Last(frames[k].text) < Last(frames[m].text)
    <3>1. PICK i \in p + 1 .. Len(buffer) : k = 1 + (i - p) /\ frames[k].text = buffer[i]
      BY <2>4, <2>7
    <3>2. PICK j \in p + 1 .. Len(buffer) : m = 1 + (j - p) /\ frames[m].text = buffer[j]
      BY <2>4, <2>7
    <3>3. i < j
      BY <2>1, <2>7, <3>1, <3>2
    <3> QED
      BY <2>3, <2>5, <3>1, <3>2, <3>3
  <2>8. Line(frames, id, C)
    BY <2>4, <2>6, <2>7 DEF Line
  <2>9. ASSUME NEW i \in DOMAIN C, Behind(C[i], <<>>, id)
        PROVE  Behind(C[i], frames, id)
    <3>1. Last(C[i]) <= id /\ Last(C[i]) \in Nat /\ id \in Nat
      <4>1. C[i] \in Texts
        OBVIOUS
      <4> QED
        BY <1>2, <2>9, <4>1, LastEvent DEF Behind, Events
    <3>2. \A j \in p + 1 .. Len(buffer) : Last(C[i]) < Last(buffer[j])
      <4> SUFFICES ASSUME NEW j \in p + 1 .. Len(buffer)
                   PROVE  Last(C[i]) < Last(buffer[j])
        OBVIOUS
      <4>1. buffer[j] \in Texts
        BY <2>5
      <4>2. Last(buffer[j]) \in Nat /\ id < Last(buffer[j])
        BY <2>6, <4>1, LastEvent
      <4> QED
        BY <3>1, <4>2
    <3> QED
      BY <2>4, <3>1, <3>2 DEF Behind
  <2> QED
    BY <2>8, <2>9
<1>3. \/ frames = Ready(FALSE) \/ frames = Ready(TRUE)
      \/ /\ id \notin {NoCursor, newest}
         /\ \E p \in DOMAIN buffer : Last(buffer[p]) = id /\ Resumes(frames, buffer, p)
  BY GreetingCases
<1> QED
  BY <1>1, <1>2, <1>3

\* Frames that are a part of others, in their order.
LEMMA LineFewer ==
  ASSUME NEW frames, NEW fewer, NEW shift \in Nat, NEW id, NEW texts,
         DOMAIN fewer \subseteq Nat,
         \A k \in DOMAIN fewer : IsEvent(fewer[k]) =>
           shift + k \in DOMAIN frames /\ fewer[k] = frames[shift + k],
         Line(frames, id, texts)
  PROVE  /\ Line(fewer, id, texts)
         /\ \A text : Behind(text, frames, id) => Behind(text, fewer, id)
<1>1. \A k \in DOMAIN fewer : IsEvent(fewer[k]) =>
        /\ fewer[k].text \in Range(texts) /\ id < Last(fewer[k].text)
  BY DEF Line
<1>2. ASSUME NEW k \in DOMAIN fewer, NEW m \in DOMAIN fewer, k < m,
             IsEvent(fewer[k]), IsEvent(fewer[m])
      PROVE  Last(fewer[k].text) < Last(fewer[m].text)
  <2>1. shift + k < shift + m
    BY <1>2
  <2>2. /\ shift + k \in DOMAIN frames /\ fewer[k] = frames[shift + k]
        /\ shift + m \in DOMAIN frames /\ fewer[m] = frames[shift + m]
    BY <1>2
  <2> QED
    BY <1>2, <2>1, <2>2 DEF Line
<1>3. \A text : Behind(text, frames, id) => Behind(text, fewer, id)
  BY DEF Behind
<1> QED
  BY <1>1, <1>2, <1>3 DEF Line

-----------------------------------------------------------------------------
(* What a client was sent *)

\* What a step does to the connection of a client, when the client receives
\* nothing: it may be sent what is committed, be closed, be greeted, wait, or
\* hear of a reconnect.
WireStep(c) ==
  /\ cursor'[c] = cursor[c] /\ got'[c] = got[c]
  /\ \/ /\ socket'[c] = socket[c] /\ asked'[c] = asked[c]
        /\ \E texts \in Seq(Texts) : committed' = committed \o texts /\ wire'[c] = Sent(c, texts)
     \/ /\ socket'[c] = "closed" /\ committed' = committed /\ wire'[c] = <<>>
     \/ /\ socket[c] = "closed" /\ socket'[c] = "ready" /\ committed' = committed \o pending
        /\ wire'[c] = Greeting(cursor[c], replay', latest')
     \/ /\ socket[c] = "closed" /\ socket'[c] = "waiting" /\ asked'[c] = cursor[c]
        /\ committed' = committed /\ wire'[c] = wire[c]
     \/ /\ socket[c] = "waiting" /\ socket'[c] = "ready" /\ committed' = committed
        /\ wire'[c] = Greeting(asked[c], replay, latest)
     \/ /\ socket[c] = "ready" /\ socket'[c] = "ready" /\ committed' = committed
        /\ wire'[c] = wire[c] \o Ready(FALSE)

\* Nothing committed, nothing sent.
LEMMA SentNothing ==
  ASSUME TypeOK, NEW c \in Clients
  PROVE  <<>> \in Seq(Texts) /\ committed \o <<>> = committed /\ Sent(c, <<>>) = wire[c]
<1>1. committed \in Seq(Texts) /\ wire[c] \in Seq(Frames)
  BY TypeParts
<1>2. EventFrames(<<>>) = <<>>
  BY EmptySeq DEF EventFrames
<1>3. committed \o <<>> = committed /\ wire[c] \o <<>> = wire[c]
  BY <1>1, ConcatEmptySeq
<1>4. wire[c] \o EventFrames(<<>>) = wire[c]
  BY <1>2, <1>3
<1>5. <<>> \in Seq(Texts)
  BY EmptySeq
<1>6. Sent(c, <<>>) = wire[c]
  BY ONLY <1>4 DEF Sent
<1> QED
  BY <1>3, <1>5, <1>6

\* A connection nothing was done to.
LEMMA WireSame ==
  ASSUME TypeOK, NEW c \in Clients, committed' = committed,
         cursor'[c] = cursor[c], got'[c] = got[c],
         socket'[c] = socket[c], asked'[c] = asked[c], wire'[c] = wire[c]
  PROVE  WireStep(c)
<1>1. <<>> \in Seq(Texts) /\ committed' = committed \o <<>> /\ wire'[c] = Sent(c, <<>>)
  BY SentNothing
<1> QED
  BY <1>1 DEF WireStep

\* Texts are committed and sent.
LEMMA WireEmit ==
  ASSUME TypeOK, NEW c \in Clients, NEW texts \in Seq(Texts), Emit(texts),
         cursor' = cursor, got' = got, socket' = socket, asked' = asked
  PROVE  WireStep(c)
<1>1. committed' = committed \o texts /\ wire'[c] = Sent(c, texts)
  BY DEF Emit, Commit
<1> QED
  BY <1>1 DEF WireStep

\* Every step does one of these, or the client receives a frame.
LEMMA WireSteps ==
  ASSUME TypeOK, [Next]_vars, NEW c \in Clients
  PROVE  WireStep(c) \/ Receive(c)
<1>0. pending \in Seq(Texts) /\ wire[c] \in Seq(Frames)
  BY TypeParts
<1>1. ASSUME NEW kind \in Kinds, Produce(kind)
      PROVE  WireStep(c)
  <2> DEFINE n == Len(log')
  <2>1. n \in Events
    BY <1>1, NextEvent DEF Produce
  <2>2. <<n>> \in Texts
    BY <2>1 DEF Texts
  <2>3. <<<<n>>>> \in Seq(Texts) /\ Append(pending, <<n>>) \in Seq(Texts)
        /\ Merged(n, kind) \in Seq(Texts)
    BY <1>0, <2>1, <2>2, MergedType
  <2> HIDE DEF n
  <2>4. \/ PushFragment(n, kind) \/ PushBarrier(n)
        \/ UNCHANGED <<pending, replay, latest, committed, wire>>
    BY <1>1 DEF Produce, n
  <2>5. cursor' = cursor /\ got' = got /\ socket' = socket /\ asked' = asked
    BY <1>1 DEF Produce, bridge, client
  <2>6. \/ Emit(<<<<n>>>>) \/ Emit(Merged(n, kind)) \/ Emit(Append(pending, <<n>>))
        \/ UNCHANGED <<replay, latest, committed, wire>>
    <3>1. PushFragment(n, kind) => \/ Emit(<<<<n>>>>) \/ Emit(Merged(n, kind))
                                   \/ UNCHANGED <<replay, latest, committed, wire>>
      BY DEF PushFragment
    <3>2. PushBarrier(n) => Emit(Append(pending, <<n>>))
      BY DEF PushBarrier
    <3> QED
      BY <2>4, <3>1, <3>2
  <2>7. CASE UNCHANGED <<replay, latest, committed, wire>>
    BY <2>5, <2>7, WireSame
  <2> QED
    BY <2>3, <2>5, <2>6, <2>7, WireEmit
<1>2. CASE WindowEnds
  BY <1>0, <1>2, WireEmit DEF WindowEnds, bridge, client
<1>3. CASE Connect
  <2>1. /\ cursor' = cursor /\ got' = got /\ asked' = asked /\ committed' = committed
        /\ socket'[c] = IF socket[c] = "waiting" THEN "ready" ELSE socket[c]
        /\ wire'[c] = CASE socket[c] = "waiting" -> Greeting(asked[c], replay, latest)
                        [] socket[c] = "ready" -> Announced(c)
                        [] OTHER -> <<>>
    BY <1>3 DEF Connect, client
  <2>2. CASE socket[c] = "waiting"
    BY <2>1, <2>2 DEF WireStep
  <2>3. CASE socket[c] = "ready" /\ everConnected
    BY <2>1, <2>3 DEF WireStep, Announced
  <2>4. CASE socket[c] = "ready" /\ ~everConnected
    <3>1. wire'[c] = wire[c] /\ socket'[c] = socket[c]
      BY <2>1, <2>4 DEF Announced
    <3> QED
      BY <2>1, <3>1, WireSame
  <2>5. CASE socket[c] = "closed"
    BY <2>1, <2>5 DEF WireStep
  <2> QED
    BY <2>2, <2>3, <2>4, <2>5, TypeParts
<1>4. CASE UpstreamBreaks
  BY <1>4, WireSame DEF UpstreamBreaks, bridge, client
<1>5. ASSUME NEW sockets, Closed(sockets), committed' = committed, cursor' = cursor, got' = got,
             asked' = asked
      PROVE  WireStep(c)
  <2>1. CASE c \in sockets
    BY <1>5, <2>1 DEF Closed, WireStep
  <2>2. CASE c \notin sockets
    <3>1. socket'[c] = socket[c] /\ wire'[c] = wire[c]
      BY <1>5, <2>2 DEF Closed
    <3> QED
      BY <1>5, <3>1, WireSame
  <2> QED
    BY <2>1, <2>2
<1>6. CASE InitialError
  BY <1>5, <1>6 DEF InitialError, hub
<1>7. CASE Rebind
  BY <1>0, <1>7, WireEmit DEF Rebind, bridge, client
<1>8. CASE ServerRestarts
  BY <1>5, <1>8 DEF ServerRestarts
<1>9. ASSUME NEW d \in Clients, Accept(d)
      PROVE  WireStep(c)
  <2>1. /\ cursor' = cursor /\ got' = got
        /\ asked' = [asked EXCEPT ![d] = cursor[d]] /\ socket[d] = "closed"
    BY <1>9 DEF Accept, client
  <2>2. CASE reader = "up"
    <3>1. /\ committed' = committed \o pending
          /\ socket' = [socket EXCEPT ![d] = "ready"]
          /\ wire'[c] = IF c = d THEN Greeting(cursor[d], replay', latest') ELSE Sent(c, pending)
      BY <1>9, <2>2 DEF Accept, Commit
    <3>2. CASE c = d
      <4>1. socket'[c] = "ready"
        BY <3>1, <3>2, TypeParts
      <4> QED
        BY <2>1, <3>1, <3>2, <4>1 DEF WireStep
    <3>3. CASE c # d
      <4>1. socket'[c] = socket[c] /\ asked'[c] = asked[c]
        BY <2>1, <3>1, <3>3, TypeParts
      <4> QED
        BY <1>0, <2>1, <3>1, <3>3, <4>1 DEF WireStep
    <3> QED
      BY <3>2, <3>3
  <2>3. CASE reader # "up"
    <3>1. /\ committed' = committed /\ socket' = [socket EXCEPT ![d] = "waiting"] /\ wire' = wire
      BY <1>9, <2>3 DEF Accept
    <3>2. CASE c = d
      <4>1. socket'[c] = "waiting" /\ asked'[c] = cursor[c]
        BY <2>1, <3>1, <3>2, TypeParts
      <4> QED
        BY <2>1, <3>1, <3>2, <4>1 DEF WireStep
    <3>3. CASE c # d
      <4>1. socket'[c] = socket[c] /\ asked'[c] = asked[c]
        BY <2>1, <3>1, <3>3, TypeParts
      <4> QED
        BY <2>1, <3>1, <4>1, WireSame
    <3> QED
      BY <3>2, <3>3
  <2> QED
    BY <2>2, <2>3
<1>10. ASSUME NEW d \in Clients, SocketCloses(d)
       PROVE  WireStep(c)
  BY <1>5, <1>10 DEF SocketCloses, hub
<1>11. ASSUME NEW d \in Clients, Receive(d), c # d
       PROVE  WireStep(c)
  <2>1. committed' = committed /\ socket' = socket /\ asked' = asked
    BY <1>11 DEF Receive, hub, bridge
  <2>2. wire'[c] = wire[c]
    BY <1>11, TypeParts DEF Receive
  <2>3. cursor'[c] = cursor[c] /\ got'[c] = got[c]
    <3>1. \/ ReceiveReady(d, Head(wire[d]).replayReset)
          \/ ReceiveEvent(d, Head(wire[d]).text)
      BY <1>11 DEF Receive
    <3>2. CASE ReceiveReady(d, Head(wire[d]).replayReset)
      BY <1>11, <3>2, TypeParts DEF ReceiveReady
    <3>3. CASE ReceiveEvent(d, Head(wire[d]).text)
      BY <1>11, <3>3, TypeParts DEF ReceiveEvent
    <3> QED
      BY <3>1, <3>2, <3>3
  <2> QED
    BY <2>1, <2>2, <2>3, WireSame
<1>12. ASSUME NEW d \in Clients, Alone(d)
       PROVE  WireStep(c)
  BY <1>12, AloneKeeps, WireSame DEF hub, bridge
<1>13. CASE UNCHANGED vars
  BY <1>13, WireSame DEF vars, hub, bridge, client
<1>14. ASSUME NEW d \in Clients, Accept(d) \/ SocketCloses(d) \/ Receive(d) \/ Alone(d)
       PROVE  WireStep(c) \/ Receive(c)
  BY <1>9, <1>10, <1>11, <1>12, <1>14
<1> QED
  BY <1>1, <1>2, <1>3, <1>4, <1>6, <1>7, <1>8, <1>13, <1>14 DEF Next, Alone

\* Only a ready socket has frames on their way; a client that waits is asked for
\* with its cursor, which is the id of a frame; what is on its way comes after
\* the cursor, and what the client was sent is behind both and came once.
Delivered(c) ==
  /\ wire[c] # <<>> => socket[c] = "ready"
  /\ socket[c] = "waiting" => asked[c] = cursor[c]
  /\ cursor[c] = NoCursor \/ \E i \in DOMAIN committed : cursor[c] = Last(committed[i])
  /\ Line(wire[c], cursor[c], committed)
  /\ \A e \in Range(got[c]) : \E i \in DOMAIN committed :
       e \in Range(committed[i]) /\ Behind(committed[i], wire[c], cursor[c])
  /\ IsInjective(got[c])

\* What is committed is in order.
LEMMA OrderedFront ==
  ASSUME NEW C \in Seq(Texts), NEW P \in Seq(Texts), NEW kinds, NEW gone,
         Ordered(C \o P, kinds, gone)
  PROVE  /\ Growing(C)
         /\ \A i \in DOMAIN C : Rising(C[i])
         /\ \A i, j \in DOMAIN C : i # j => Range(C[i]) \cap Range(C[j]) = {}
<1> DEFINE W == C \o P
<1>1. W \in Seq(Texts) /\ \A i \in DOMAIN C : i \in DOMAIN W /\ W[i] = C[i]
  BY Joined
<1>2. Ordered(W, kinds, gone)
  OBVIOUS
<1> HIDE DEF W
<1>3. Ordered(C, kinds, gone)
  BY <1>1, <1>2, OrderedPrefix
<1> QED
  BY <1>3 DEF Ordered, Growing

\* Whatever happens but a receipt, what a client is delivered stays in order.
LEMMA DeliveredStep ==
  ASSUME TypeOK, ReplayInv, TypeOK', ReplayInv', Growing(committed'),
         NEW c \in Clients, WireStep(c), Delivered(c)
  PROVE  Delivered(c)'
<1> DEFINE C == committed
           W == committed'
           id == cursor[c]
           frames == wire[c]
           others == wire'[c]
<1>1. /\ C \in Seq(Texts) /\ pending \in Seq(Texts) /\ replay \in Seq(Texts)
      /\ id \in Events \cup {NoCursor} /\ frames \in Seq(Frames)
      /\ socket[c] \in {"closed", "waiting", "ready"}
  BY TypeParts
<1>2. W \in Seq(Texts) /\ replay' \in Seq(Texts) /\ others \in Seq(Frames)
  BY DEF TypeOK
<1>3. cursor'[c] = id /\ got'[c] = got[c]
  BY DEF WireStep
<1>4. \A i \in DOMAIN C : i \in DOMAIN W /\ W[i] = C[i]
  <2>1. \/ W = C \/ W = C \o pending
        \/ \E texts \in Seq(Texts) : W = C \o texts
    BY DEF WireStep
  <2>2. ASSUME NEW texts \in Seq(Texts), W = C \o texts
        PROVE  \A i \in DOMAIN C : i \in DOMAIN W /\ W[i] = C[i]
    BY <1>1, <2>2, Joined
  <2> QED
    BY <1>1, <2>1, <2>2
<1>5. /\ Line(frames, id, C)
      /\ frames # <<>> => socket[c] = "ready"
      /\ id = NoCursor \/ \E i \in DOMAIN C : id = Last(C[i])
      /\ socket[c] = "waiting" => asked[c] = id
  BY DEF Delivered
<1> DEFINE Passed == /\ others # <<>> => socket'[c] = "ready"
                     /\ socket'[c] = "waiting" => asked'[c] = id
                     /\ Line(others, id, W)
                     /\ \A i \in DOMAIN C :
                          Behind(C[i], frames, id) => Behind(C[i], others, id)
<1>6. Passed
  <2> HIDE DEF C, W, id, frames, others
  <2>1. ASSUME NEW texts \in Seq(Texts), W = C \o texts, others = Sent(c, texts),
               socket'[c] = socket[c], asked'[c] = asked[c]
        PROVE  Passed
    <3> DEFINE more == frames \o EventFrames(texts)
    <3>1. more \in Seq(Frames) /\ others = IF socket[c] = "ready" THEN more ELSE frames
      BY <1>1, <2>1, FramesJoined DEF Sent, frames
    <3>2. Growing(W)
      BY DEF W
    <3> HIDE DEF more
    <3>3. Joins(frames, EventFrames(texts), more) /\ Joins(C, texts, W)
      BY <2>1 DEF Joins, more
    <3>4. /\ Line(frames, id, W) /\ Line(more, id, W)
          /\ \A i \in DOMAIN C : Behind(C[i], frames, id) => Behind(C[i], more, id)
      BY ONLY <1>1, <1>2, <1>5, <2>1, <3>1, <3>2, <3>3, texts \in Seq(Texts), LineSent
    <3> QED
      BY <1>5, <2>1, <3>1, <3>4
  <2>2. CASE socket'[c] = "closed" /\ others = <<>>
    <3>1. Line(<<>>, id, W) /\ \A i \in DOMAIN C : Behind(C[i], frames, id) => Behind(C[i], <<>>, id)
      BY DEF Line, Behind
    <3> QED
      BY <2>2, <3>1
  <2>3. ASSUME frames = <<>>, socket'[c] = "ready", NEW buffer \in Seq(Texts),
               Len(buffer) <= Len(W),
               \A i \in DOMAIN buffer : buffer[i] = W[Len(W) - Len(buffer) + i],
               NEW newest, others = Greeting(id, buffer, newest)
        PROVE  Passed
    <3>1. Growing(W)
      BY DEF W
    <3>2. /\ Line(others, id, W)
          /\ \A i \in DOMAIN W : Behind(W[i], <<>>, id) => Behind(W[i], others, id)
      BY ONLY <1>1, <1>2, <2>3, <3>1, LineGreeting
    <3>3. \A i \in DOMAIN C : i \in DOMAIN W /\ W[i] = C[i]
      BY <1>4
    <3> QED
      BY <2>3, <3>2, <3>3
  <2>4. CASE /\ socket[c] = "closed" /\ socket'[c] = "ready"
             /\ others = Greeting(id, replay', latest')
    <3>1. frames = <<>>
      BY <1>5, <2>4
    <3>2. Len(replay') <= Len(W)
          /\ \A i \in DOMAIN replay' : replay'[i] = W[Len(W) - Len(replay') + i]
      BY DEF ReplayInv, W
    <3> QED
      BY <1>2, <2>3, <2>4, <3>1, <3>2
  <2>5. CASE /\ socket[c] = "closed" /\ socket'[c] = "waiting" /\ asked'[c] = id /\ W = C
             /\ others = frames
    BY <1>5, <2>5
  <2>6. CASE /\ socket[c] = "waiting" /\ socket'[c] = "ready" /\ W = C
             /\ others = Greeting(id, replay, latest)
    <3>1. frames = <<>>
      BY <1>5, <2>6
    <3>2. Len(replay) <= Len(W)
          /\ \A i \in DOMAIN replay : replay[i] = W[Len(W) - Len(replay) + i]
      BY <2>6 DEF ReplayInv, W, C
    <3> QED
      BY <1>1, <2>3, <2>6, <3>1, <3>2
  <2>7. CASE socket'[c] = "ready" /\ W = C /\ others = frames \o Ready(FALSE)
    <3>1. \A k \in DOMAIN others : IsEvent(others[k]) =>
            0 + k \in DOMAIN frames /\ others[k] = frames[0 + k]
      <4> SUFFICES ASSUME NEW k \in DOMAIN others, IsEvent(others[k])
                   PROVE  0 + k \in DOMAIN frames /\ others[k] = frames[0 + k]
        OBVIOUS
      <4> DEFINE all == frames \o Ready(FALSE)
      <4>1. /\ \A i \in DOMAIN frames : all[i] = frames[i]
            /\ ~IsEvent(all[Len(frames) + 1])
            /\ \A i \in DOMAIN all : i \in DOMAIN frames \/ i = Len(frames) + 1
        BY <1>1, ReadyJoined
      <4>2. others = all /\ k \in DOMAIN all
        BY <2>7
      <4> HIDE DEF all
      <4>3. k \in DOMAIN frames
        BY <4>1, <4>2
      <4>4. k \in Nat /\ 0 + k = k
        BY <1>2
      <4> QED
        BY <4>1, <4>2, <4>3, <4>4
    <3>2. DOMAIN others \subseteq Nat /\ 0 \in Nat
      BY <1>2
    <3> QED
      BY <1>5, <2>7, <3>1, <3>2, LineFewer
  <2> QED
    BY <1>1, <1>5, <2>1, <2>2, <2>4, <2>5, <2>6, <2>7 DEF WireStep, C, W, id, frames, others
<1>7. \A e \in Range(got'[c]) : \E i \in DOMAIN W : e \in Range(W[i]) /\ Behind(W[i], others, id)
  <2> SUFFICES ASSUME NEW e \in Range(got[c])
               PROVE  \E i \in DOMAIN W : e \in Range(W[i]) /\ Behind(W[i], others, id)
    BY <1>3
  <2>1. PICK i \in DOMAIN C : e \in Range(C[i]) /\ Behind(C[i], frames, id)
    BY DEF Delivered
  <2> QED
    BY <1>4, <1>6, <2>1
<1>8. id = NoCursor \/ \E i \in DOMAIN W : id = Last(W[i])
  BY <1>4, <1>5
<1>9. IsInjective(got'[c])
  BY <1>3 DEF Delivered
<1> QED
  BY <1>3, <1>6, <1>7, <1>8, <1>9 DEF Delivered

\* The first frame of what is on its way, and the rest.
LEMMA FirstFrame ==
  ASSUME NEW frames \in Seq(Frames), frames # <<>>
  PROVE  /\ Head(frames) = frames[1] /\ 1 \in DOMAIN frames /\ Head(frames) \in Frames
         /\ Tail(frames) \in Seq(Frames) /\ DOMAIN Tail(frames) \subseteq Nat \ {0}
         /\ \A k \in DOMAIN Tail(frames) :
              1 + k \in DOMAIN frames /\ Tail(frames)[k] = frames[1 + k]
         /\ \A k \in DOMAIN frames :
              k = 1 \/ \E m \in DOMAIN Tail(frames) : k = 1 + m
<1>1. /\ Tail(frames) \in Seq(Frames) /\ Len(Tail(frames)) = Len(frames) - 1
      /\ \A k \in 1 .. Len(frames) - 1 : Tail(frames)[k] = frames[k + 1]
      /\ Head(frames) = frames[1] /\ frames[1] \in Frames
      /\ Len(frames) \in Nat \ {0} /\ DOMAIN frames = 1 .. Len(frames)
  BY HeadTailProperties
<1>2. DOMAIN Tail(frames) = 1 .. Len(frames) - 1
  BY <1>1
<1>3. ASSUME NEW k \in 1 .. Len(frames) - 1
      PROVE  1 + k \in 1 .. Len(frames) /\ Tail(frames)[k] = frames[1 + k]
  <2>1. 1 + k = k + 1
    OBVIOUS
  <2> QED
    BY <1>1, <2>1
<1>4. ASSUME NEW k \in 1 .. Len(frames), k # 1
      PROVE  \E m \in 1 .. Len(frames) - 1 : k = 1 + m
  <2>1. k - 1 \in 1 .. Len(frames) - 1 /\ k = 1 + (k - 1)
    BY <1>1, <1>4
  <2> QED
    BY <2>1
<1> DEFINE rest == Tail(frames)
<1>5. /\ Head(frames) = frames[1] /\ 1 \in DOMAIN frames /\ Head(frames) \in Frames
      /\ rest \in Seq(Frames) /\ DOMAIN rest \subseteq Nat \ {0}
  BY <1>1, <1>2
<1>6. \A k \in DOMAIN rest : 1 + k \in DOMAIN frames /\ rest[k] = frames[1 + k]
  BY <1>1, <1>2, <1>3
<1>7. \A k \in DOMAIN frames : k = 1 \/ \E m \in DOMAIN rest : k = 1 + m
  BY <1>1, <1>2, <1>4
<1> QED
  BY ONLY <1>5, <1>6, <1>7

\* What the client gets with a frame.
LEMMA ReceiveSteps ==
  ASSUME TypeOK, NEW c \in Clients, Receive(c)
  PROVE  /\ wire[c] # <<>> /\ wire'[c] = Tail(wire[c])
         /\ UNCHANGED <<committed, pending, socket, asked, log, lost, reader, replay, latest>>
         /\ \/ /\ ~IsEvent(Head(wire[c])) /\ Head(wire[c]).replayReset \in BOOLEAN
               /\ got'[c] = got[c] /\ seen'[c] = seen[c] /\ bootRead'[c] = bootRead[c]
               /\ cursor'[c] = IF Head(wire[c]).replayReset THEN NoCursor ELSE cursor[c]
               /\ resync'[c] = resync[c] \/ resync'[c] = "asked"
               /\ excused'[c] = IF bootRead[c] /\ resync'[c] # "asked"
                                THEN excused[c] \cup Missed(c, cursor'[c]) ELSE excused[c]
            \/ /\ IsEvent(Head(wire[c])) /\ Head(wire[c]).text \in Texts
               /\ cursor'[c] = Last(Head(wire[c]).text)
               /\ got'[c] = got[c] \o Head(wire[c]).text
               /\ seen'[c] = seen[c] \cup Range(Head(wire[c]).text)
               /\ excused'[c] = excused[c]
               /\ bootRead'[c] = bootRead[c] /\ resync'[c] = resync[c]
<1> DEFINE frame == Head(wire[c])
<1>1. /\ wire \in [Clients -> Seq(Frames)] /\ got \in [Clients -> Seq(Events)]
      /\ cursor \in [Clients -> Events \cup {NoCursor}]
      /\ seen \in [Clients -> SUBSET Events] /\ excused \in [Clients -> SUBSET Events]
      /\ resync \in [Clients -> {"no", "asked", "answered"}]
  BY TypeParts
<1>2. /\ wire[c] # <<>> /\ wire'[c] = Tail(wire[c]) /\ bootRead' = bootRead
      /\ UNCHANGED <<committed, pending, socket, asked, log, lost, reader, replay, latest>>
  BY <1>1 DEF Receive, hub, bridge
<1>3. frame \in Frames
  BY <1>1, <1>2, FirstFrame
<1>4. \/ frame.type = "ready" /\ ReceiveReady(c, frame.replayReset)
      \/ frame.type = "event" /\ ReceiveEvent(c, frame.text)
  BY DEF Receive
<1>5. \/ frame.type = "event" /\ frame.text \in Texts
      \/ frame.type = "ready" /\ frame.replayReset \in BOOLEAN
  BY <1>3, FrameTypes
<1> HIDE DEF frame
<1>6. CASE frame.type = "ready" /\ ReceiveReady(c, frame.replayReset)
  <2>1. ~IsEvent(frame) /\ frame.replayReset \in BOOLEAN
    BY <1>5, <1>6 DEF IsEvent
  <2>2. /\ got'[c] = got[c]
        /\ cursor'[c] = IF frame.replayReset THEN NoCursor ELSE cursor[c]
    BY <1>1, <1>6 DEF ReceiveReady
  <2>3. resync'[c] = resync[c] \/ resync'[c] = "asked"
    BY <1>1, <1>6 DEF ReceiveReady
  <2> DEFINE id == IF frame.replayReset THEN NoCursor ELSE cursor[c]
             more == Missed(c, id)
  <2>4. /\ seen' = seen
        /\ excused' = [excused EXCEPT ![c] = IF bootRead[c] /\ resync'[c] # "asked"
                                             THEN @ \cup more ELSE @]
    BY <1>6 DEF ReceiveReady
  <2>5. cursor'[c] = id
    BY <2>2
  <2> HIDE DEF id, more
  <2>6. excused'[c] = IF bootRead[c] /\ resync'[c] # "asked"
                      THEN excused[c] \cup more ELSE excused[c]
    BY <1>1, <2>4
  <2>7. more = Missed(c, cursor'[c])
    BY <2>5 DEF more
  <2> QED
    BY <1>2, <2>1, <2>2, <2>3, <2>4, <2>6, <2>7 DEF frame
<1>7. CASE frame.type = "event" /\ ReceiveEvent(c, frame.text)
  <2>1. IsEvent(frame) /\ frame.text \in Texts
    BY <1>5, <1>7 DEF IsEvent
  <2>2. /\ cursor'[c] = Last(frame.text) /\ got'[c] = got[c] \o frame.text
        /\ seen'[c] = seen[c] \cup Range(frame.text) /\ excused'[c] = excused[c]
        /\ resync' = resync
    BY <1>1, <1>7 DEF ReceiveEvent
  <2> QED
    BY <1>2, <2>1, <2>2 DEF frame
<1> QED
  BY <1>4, <1>6, <1>7

\* The elements of two sequences joined.
LEMMA RangeJoined ==
  ASSUME NEW S, NEW s \in Seq(S), NEW t \in Seq(S)
  PROVE  \A e \in Range(s \o t) : e \in Range(s) \/ e \in Range(t)
<1> DEFINE both == s \o t
<1>1. /\ \A i \in DOMAIN s : both[i] = s[i]
      /\ \A i \in DOMAIN both : \/ i \in DOMAIN s
                                \/ i > Len(s) /\ i - Len(s) \in DOMAIN t
      /\ \A i \in DOMAIN t : both[Len(s) + i] = t[i]
      /\ both \in Seq(S)
  BY Joined
<1> HIDE DEF both
<1>2. ASSUME NEW i \in DOMAIN both, i - Len(s) \in DOMAIN t
      PROVE  both[i] \in Range(t)
  <2>1. i = Len(s) + (i - Len(s))
    BY <1>1
  <2>2. both[i] = t[i - Len(s)]
    BY <1>1, <1>2, <2>1
  <2> QED
    BY <1>2, <2>2 DEF Range
<1>3. \A e \in Range(both) : e \in Range(s) \/ e \in Range(t)
  BY <1>1, <1>2 DEF Range
<1> QED
  BY <1>3 DEF both

\* Two sequences without repetition that share nothing.
LEMMA InjectiveJoined ==
  ASSUME NEW S, NEW s \in Seq(S), NEW t \in Seq(S), IsInjective(s), IsInjective(t),
         Range(s) \cap Range(t) = {}
  PROVE  IsInjective(s \o t)
<1> DEFINE both == s \o t
<1>1. /\ \A i \in DOMAIN s : both[i] = s[i]
      /\ \A i \in DOMAIN t : both[Len(s) + i] = t[i]
      /\ \A i \in DOMAIN both : \/ i \in DOMAIN s
                                \/ i > Len(s) /\ i - Len(s) \in DOMAIN t
      /\ both \in Seq(S)
  BY Joined
<1> HIDE DEF both
<1>2. DOMAIN both \subseteq Nat /\ Len(s) \in Nat
  BY <1>1
<1>3. \A i \in DOMAIN both : i \in DOMAIN s \/ \E m \in DOMAIN t : i = Len(s) + m
  <2> SUFFICES ASSUME NEW i \in DOMAIN both, i - Len(s) \in DOMAIN t
               PROVE  \E m \in DOMAIN t : i = Len(s) + m
    BY <1>1
  <2>1. i = Len(s) + (i - Len(s))
    BY <1>2
  <2> QED
    BY <2>1
<1>4. \A i \in DOMAIN s, m \in DOMAIN t : s[i] # t[m]
  BY DEF Range
<1>5. ASSUME NEW i \in DOMAIN both, NEW j \in DOMAIN both, both[i] = both[j]
      PROVE  i = j
  <2>1. CASE i \in DOMAIN s /\ j \in DOMAIN s
    BY <1>1, <1>5, <2>1 DEF IsInjective
  <2>2. ASSUME NEW m \in DOMAIN t, i = Len(s) + m, NEW l \in DOMAIN t, j = Len(s) + l
        PROVE  i = j
    <3>1. t[m] = t[l]
      BY <1>1, <1>5, <2>2
    <3> QED
      BY <2>2, <3>1 DEF IsInjective
  <2>3. ASSUME i \in DOMAIN s, NEW m \in DOMAIN t, j = Len(s) + m
        PROVE  FALSE
    BY <1>1, <1>4, <1>5, <2>3
  <2>4. ASSUME j \in DOMAIN s, NEW m \in DOMAIN t, i = Len(s) + m
        PROVE  FALSE
    BY <1>1, <1>4, <1>5, <2>4
  <2> QED
    BY <1>3, <2>1, <2>2, <2>3, <2>4
<1> QED
  BY <1>5 DEF IsInjective, both

\* A sequence that rises does not repeat.
LEMMA RisingInjective ==
  ASSUME NEW text \in Seq(Events), Rising(text)
  PROVE  IsInjective(text)
<1> SUFFICES ASSUME NEW k \in DOMAIN text, NEW m \in DOMAIN text, text[k] = text[m], k < m
             PROVE  FALSE
  <2>1. DOMAIN text \subseteq Nat
    OBVIOUS
  <2> QED
    BY <2>1 DEF IsInjective
<1>1. text[k] < text[m]
  BY DEF Rising
<1>2. text[k] \in Events
  OBVIOUS
<1> QED
  BY <1>1, <1>2 DEF Events

\* A receipt keeps it in order, too.
LEMMA DeliveredReceive ==
  ASSUME TypeOK, TypeOK', HistoryInv, NEW c \in Clients, Receive(c), Delivered(c)
  PROVE  Delivered(c)'
<1> DEFINE C == committed
           frames == wire[c]
           rest == Tail(wire[c])
           frame == Head(wire[c])
           id == cursor[c]
<1>1. /\ C \in Seq(Texts) /\ frames \in Seq(Frames) /\ id \in Events \cup {NoCursor}
      /\ got[c] \in Seq(Events)
  BY TypeParts
<1>2. /\ frames # <<>> /\ wire'[c] = rest
      /\ committed' = committed /\ socket' = socket /\ asked' = asked
  BY ReceiveSteps
<1>3. /\ frame = frames[1] /\ 1 \in DOMAIN frames
      /\ DOMAIN rest \subseteq Nat \ {0}
      /\ \A k \in DOMAIN rest : 1 + k \in DOMAIN frames /\ rest[k] = frames[1 + k]
  BY <1>1, <1>2, FirstFrame
<1>4. /\ socket[c] = "ready" /\ Line(frames, id, C)
      /\ id = NoCursor \/ \E i \in DOMAIN C : id = Last(C[i])
      /\ \A e \in Range(got[c]) : \E i \in DOMAIN C :
           e \in Range(C[i]) /\ Behind(C[i], frames, id)
      /\ IsInjective(got[c])
  BY <1>2 DEF Delivered
<1>5. /\ Line(rest, id, C)
      /\ \A text : Behind(text, frames, id) => Behind(text, rest, id)
  BY <1>3, <1>4, LineFewer
<1>6. /\ wire'[c] # <<>> => socket'[c] = "ready"
      /\ socket'[c] = "waiting" => asked'[c] = cursor'[c]
  BY <1>2, <1>4
<1>7. CASE /\ got'[c] = got[c]
           /\ cursor'[c] = id \/ cursor'[c] = NoCursor
  <2>1. Line(rest, cursor'[c], C)
    <3>1. CASE cursor'[c] = id
      BY <1>5, <3>1
    <3>2. CASE cursor'[c] = NoCursor
      <4>1. \A text \in Range(C) : NoCursor < Last(text)
        <5> SUFFICES ASSUME NEW i \in DOMAIN C
                     PROVE  NoCursor < Last(C[i])
          BY DEF Range
        <5>1. C[i] \in Texts
          BY <1>1
        <5> QED
          BY <5>1, LastEvent DEF NoCursor
      <4> QED
        BY <1>5, <3>2, <4>1 DEF Line
    <3> QED
      BY <1>7, <3>1, <3>2
  <2>2. \A text : Behind(text, rest, id) => Behind(text, rest, cursor'[c])
    BY <1>7 DEF Behind
  <2> HIDE DEF C, frames, rest, id
  <2>3. \A e \in Range(got[c]) : \E i \in DOMAIN C :
          e \in Range(C[i]) /\ Behind(C[i], rest, cursor'[c])
    BY <1>4, <1>5, <2>2
  <2>4. cursor'[c] = NoCursor \/ \E i \in DOMAIN C : cursor'[c] = Last(C[i])
    BY <1>4, <1>7
  <2>5. committed' = C
    BY <1>2 DEF C
  <2> QED
    BY <1>2, <1>4, <1>6, <1>7, <2>1, <2>3, <2>4, <2>5 DEF Delivered
<1>8. CASE /\ IsEvent(frame) /\ frame.text \in Texts
           /\ cursor'[c] = Last(frame.text) /\ got'[c] = got[c] \o frame.text
  <2> DEFINE text == frame.text
             newest == Last(text)
  <2>0. Ordered(C \o pending, log, lost) /\ pending \in Seq(Texts)
    BY TypeParts DEF HistoryInv, Frozen
  <2>1. /\ \A i \in DOMAIN C : Rising(C[i])
        /\ \A i, j \in DOMAIN C : i # j => Range(C[i]) \cap Range(C[j]) = {}
    BY <1>1, <2>0, OrderedFront
  <2> HIDE DEF C, frames, rest, frame, id
  <2>2. PICK p \in DOMAIN C : text = C[p]
    <3>1. text \in Range(C)
      BY <1>3, <1>4, <1>8 DEF Line
    <3> QED
      BY <3>1 DEF Range
  <2>3. \A k \in DOMAIN rest : IsEvent(rest[k]) => newest < Last(rest[k].text)
    <3> SUFFICES ASSUME NEW k \in DOMAIN rest, IsEvent(rest[k])
                 PROVE  newest < Last(rest[k].text)
      OBVIOUS
    <3>1. 1 + k \in DOMAIN frames /\ rest[k] = frames[1 + k] /\ 1 < 1 + k
      BY <1>3
    <3> QED
      BY <1>3, <1>4, <1>8, <3>1 DEF Line
  <2>4. Line(rest, newest, C)
    BY <1>5, <2>3 DEF Line
  <2>5. Behind(text, rest, newest)
    <3>1. newest <= newest
      BY <1>8, LastEvent
    <3> QED
      BY <2>3, <3>1 DEF Behind
  <2>6. \A i \in DOMAIN C : Behind(C[i], frames, id) => Last(C[i]) < newest
    BY <1>3, <1>8 DEF Behind
  <2>7. \A i \in DOMAIN C : Behind(C[i], frames, id) => Behind(C[i], rest, newest)
    <3> SUFFICES ASSUME NEW i \in DOMAIN C, Behind(C[i], frames, id)
                 PROVE  Behind(C[i], rest, newest)
      OBVIOUS
    <3>1. C[i] \in Texts
      BY <1>1
    <3>2. Last(C[i]) <= newest
      BY <1>8, <2>6, <3>1, LastEvent
    <3> QED
      BY <1>5, <3>2 DEF Behind
  <2>8. \A e \in Range(got[c]) : \E i \in DOMAIN C :
          e \in Range(C[i]) /\ i # p /\ Behind(C[i], rest, newest)
    <3> SUFFICES ASSUME NEW e \in Range(got[c])
                 PROVE  \E i \in DOMAIN C :
                          e \in Range(C[i]) /\ i # p /\ Behind(C[i], rest, newest)
      OBVIOUS
    <3>1. PICK i \in DOMAIN C : e \in Range(C[i]) /\ Behind(C[i], frames, id)
      BY <1>4
    <3>2. i # p
      <4>1. C[i] \in Texts
        BY <1>1
      <4>2. Last(C[i]) < newest /\ Last(C[i]) \in Nat
        BY <2>6, <3>1, <4>1, LastEvent
      <4> QED
        BY <2>2, <4>2
    <3> QED
      BY <2>7, <3>1, <3>2
  <2>9. Range(got[c]) \cap Range(text) = {}
    BY <2>1, <2>2, <2>8
  <2>10. text \in Seq(Events) /\ IsInjective(text)
    <3>1. text \in Seq(Events)
      BY <1>8 DEF Texts
    <3> QED
      BY <2>1, <2>2, <3>1, RisingInjective
  <2>11. IsInjective(got[c] \o text)
    BY <1>1, <1>4, <2>9, <2>10, InjectiveJoined
  <2>12. \A e \in Range(got[c] \o text) : \E i \in DOMAIN C :
           e \in Range(C[i]) /\ Behind(C[i], rest, newest)
    <3>1. \A e \in Range(got[c] \o text) : e \in Range(got[c]) \/ e \in Range(text)
      BY <1>1, <2>10, RangeJoined
    <3> QED
      BY <2>2, <2>5, <2>8, <3>1
  <2>13. committed' = C
    BY <1>2 DEF C
  <2>14. /\ Line(wire'[c], cursor'[c], committed')
         /\ \A e \in Range(got'[c]) : \E i \in DOMAIN committed' :
              e \in Range(committed'[i]) /\ Behind(committed'[i], wire'[c], cursor'[c])
         /\ \E i \in DOMAIN committed' : cursor'[c] = Last(committed'[i])
         /\ IsInjective(got'[c])
    BY <1>2, <1>8, <2>2, <2>4, <2>11, <2>12, <2>13
  <2> QED
    BY <1>6, <2>14 DEF Delivered
<1> QED
  BY <1>7, <1>8, ReceiveSteps

\* Every client is delivered what it should be.
DeliveryInv == \A c \in Clients : Delivered(c)

\* Every step keeps what each client is delivered.
LEMMA DeliveryNext ==
  ASSUME TypeOK, HistoryInv, ReplayInv, DeliveryInv, [Next]_vars
  PROVE  DeliveryInv'
<1>1. TypeOK' /\ HistoryInv' /\ ReplayInv'
  BY NextType, HistoryNext, ReplayNext
<1>2. Growing(committed')
  <2>1. Ordered(committed' \o pending', log', lost')
    BY <1>1 DEF HistoryInv, Frozen
  <2>2. committed' \in Seq(Texts) /\ pending' \in Seq(Texts)
    BY <1>1 DEF TypeOK
  <2> QED
    BY <2>1, <2>2, OrderedFront
<1>3. ASSUME NEW c \in Clients
      PROVE  Delivered(c)'
  <2>1. Delivered(c)
    BY DEF DeliveryInv
  <2>2. CASE WireStep(c)
    BY <1>1, <1>2, <2>1, <2>2, DeliveredStep
  <2>3. CASE Receive(c)
    BY <1>1, <2>1, <2>3, DeliveredReceive
  <2> QED
    BY <2>2, <2>3, WireSteps
<1> QED
  BY <1>3 DEF DeliveryInv

\* Nothing is delivered at first.
LEMMA DeliveryInit ==
  ASSUME Init
  PROVE  DeliveryInv
<1> SUFFICES ASSUME NEW c \in Clients
             PROVE  Delivered(c)
  BY DEF DeliveryInv
<1>1. wire[c] = <<>> /\ socket[c] = "closed" /\ cursor[c] = NoCursor /\ got[c] = <<>>
  BY DEF Init
<1>2. Line(<<>>, cursor[c], committed) /\ Range(<<>>) = {} /\ IsInjective(<<>>)
  BY DEF Line, Range, IsInjective
<1> QED
  BY <1>1, <1>2 DEF Delivered

\* What a client has got, what is on its line and where its cursor stands fit
\* together: the line goes on, in the order of commits, from what was got, and the
\* cursor names the last event got.
THEOREM DeliveryCorrect == Spec => [](TypeOK /\ HistoryInv /\ ReplayInv /\ DeliveryInv)
<1>1. Init => DeliveryInv
  BY DeliveryInit
<1>2. TypeOK /\ HistoryInv /\ ReplayInv /\ DeliveryInv /\ [Next]_vars => DeliveryInv'
  BY DeliveryNext
<1> QED
  BY <1>1, <1>2, HistoryCorrect, ReplayCorrect, PTL DEF Spec

\* Whatever closes and resumes, no event is sent to a client twice.
THEOREM ExactlyOnceAlways == Spec => []ExactlyOnce
<1>1. DeliveryInv => ExactlyOnce
  BY DEF DeliveryInv, Delivered, ExactlyOnce
<1> QED
  BY <1>1, DeliveryCorrect, PTL

-----------------------------------------------------------------------------
(* What a client misses *)

\* Frames carry an event.
Carries(frames, n) == \E k \in DOMAIN frames : IsEvent(frames[k]) /\ n \in Range(frames[k].text)

\* There is a ready among frames.
Notes(frames) == \E k \in DOMAIN frames : ~IsEvent(frames[k])

\* The first frame is a ready after which the cursor is none.
Resets(frames, id) ==
  /\ frames # <<>> /\ ~IsEvent(frames[1])
  /\ frames[1].replayReset \/ id = NoCursor

\* What a client has neither got nor read, nor is excused from.
Missing(c) == Happened \ (seen[c] \cup excused[c])

\* What a client misses will reach it: it is held back, on its way, or there is
\* a ready to come, for which the client reads or which excuses it.
OnItsWay(c, n) ==
  \/ n \in Held(pending)
  \/ Carries(wire[c], n)
  \/ n \in lost /\ (reader = "dialing" \/ Notes(wire[c]))
  \/ Resets(wire[c], cursor[c])

\* What a client with a cursor misses of the committed texts comes after the
\* cursor, and what it misses while its socket is ready is on its way.
Covered(c) ==
  /\ cursor[c] # NoCursor =>
       \A i \in DOMAIN committed : \A n \in Range(committed[i]) \cap Missing(c) :
         cursor[c] < Last(committed[i])
  /\ socket[c] = "ready" => \A n \in Missing(c) : OnItsWay(c, n)

\* The client has yet to read OpenCode's state: in its bootstrap, or for a re-read.
ReadAhead(c) == ~bootRead[c] \/ resync[c] = "asked"

\* The events of texts one after the other.
LEMMA HeldJoined ==
  ASSUME NEW F \in Seq(Texts), NEW G \in Seq(Texts)
  PROVE  \A n : n \in Held(F \o G) <=> n \in Held(F) \/ n \in Held(G)
<1> DEFINE W == F \o G
<1>1. /\ \A i \in DOMAIN F : i \in DOMAIN W /\ W[i] = F[i]
      /\ \A i \in DOMAIN G : Len(F) + i \in DOMAIN W /\ W[Len(F) + i] = G[i]
      /\ \A i \in DOMAIN W : i \in DOMAIN F \/ (i > Len(F) /\ i - Len(F) \in DOMAIN G)
      /\ W \in Seq(Texts)
  BY Joined
<1> HIDE DEF W
<1>2. ASSUME NEW i \in DOMAIN W, i - Len(F) \in DOMAIN G
      PROVE  W[i] = G[i - Len(F)]
  <2>1. i = Len(F) + (i - Len(F))
    BY <1>1
  <2> QED
    BY <1>1, <1>2, <2>1
<1>3. \A n : n \in Held(W) <=> n \in Held(F) \/ n \in Held(G)
  BY <1>1, <1>2 DEF Held
<1> QED
  BY <1>3 DEF W

\* What is committed is neither pending nor lost.
LEMMA CommittedApart ==
  ASSUME TypeOK, HistoryInv
  PROVE  /\ \A n \in Held(committed) : n \notin Held(pending) /\ n \notin lost /\ n \in Happened
         /\ \A n \in Held(pending) : n \notin lost /\ n \in Happened
         /\ \A n \in lost : n \in Happened
         /\ \A n \in Happened : n \in Held(committed) \/ n \in Held(pending) \/ n \in lost
         /\ \A i, j \in DOMAIN committed : \A n \in Range(committed[i]) \cap Range(committed[j]) : i = j
<1>1. /\ committed \in Seq(Texts) /\ pending \in Seq(Texts)
      /\ \A i \in DOMAIN committed : i \in DOMAIN Frozen /\ Frozen[i] = committed[i]
      /\ \A i \in DOMAIN pending : /\ Len(committed) + i \in DOMAIN Frozen
                                   /\ Frozen[Len(committed) + i] = pending[i]
      /\ \A n : n \in Held(Frozen) <=> n \in Held(committed) \/ n \in Held(pending)
  BY TypeParts, FrozenParts
<1>2. /\ \A i, j \in DOMAIN Frozen : i # j => Range(Frozen[i]) \cap Range(Frozen[j]) = {}
      /\ \A n : n \in Happened <=> n \in Held(Frozen) \/ n \in lost
      /\ Held(Frozen) \cap lost = {}
  BY DEF HistoryInv, Ordered
<1>3. ASSUME NEW i \in DOMAIN committed, NEW j \in DOMAIN pending
      PROVE  Range(committed[i]) \cap Range(pending[j]) = {}
  <2>1. i # Len(committed) + j
    <3>1. i \in 1 .. Len(committed) /\ j \in 1 .. Len(pending) /\ Len(committed) \in Nat
          /\ Len(pending) \in Nat
      BY <1>1
    <3> QED
      BY <3>1
  <2> QED
    BY <1>1, <1>2, <2>1
<1>4. \A n \in Held(committed) : n \notin Held(pending)
  BY <1>3 DEF Held
<1>5. \A i, j \in DOMAIN committed : \A n \in Range(committed[i]) \cap Range(committed[j]) : i = j
  BY <1>1, <1>2
<1> QED
  BY <1>1, <1>2, <1>4, <1>5

\* What is on its way to a client is carried by its frames.
LEMMA OnWireCarries ==
  ASSUME NEW c \in Clients
  PROVE  \A n \in OnWire(c) : Carries(wire[c], n)
BY DEF OnWire, Carries, IsEvent, Range

\* More frames at the end take nothing away.
LEMMA FramesKept ==
  ASSUME NEW frames \in Seq(Frames), NEW more \in Seq(Frames),
         \A k \in DOMAIN frames : k \in DOMAIN more /\ more[k] = frames[k], NEW id
  PROVE  /\ \A n : Carries(frames, n) => Carries(more, n)
         /\ Notes(frames) => Notes(more)
         /\ Resets(frames, id) => Resets(more, id)
<1>1. (\A n : Carries(frames, n) => Carries(more, n)) /\ (Notes(frames) => Notes(more))
  BY DEF Carries, Notes
<1>2. ASSUME Resets(frames, id)
      PROVE  Resets(more, id)
  <2>1. 1 \in DOMAIN frames
    BY <1>2, FirstFrame DEF Resets
  <2>2. 1 \in DOMAIN more /\ more[1] = frames[1]
    BY <2>1
  <2>3. more # <<>>
    BY <2>2
  <2> QED
    BY <1>2, <2>2, <2>3 DEF Resets
<1> QED
  BY <1>1, <1>2

\* Whatever a client is greeted with, there is a ready in it, and a committed
\* text after its cursor is on its way unless the client is reset.
LEMMA GreetingCovers ==
  ASSUME NEW C \in Seq(Texts), Growing(C), NEW buffer \in Seq(Texts), Len(buffer) <= Len(C),
         \A i \in DOMAIN buffer : buffer[i] = C[Len(C) - Len(buffer) + i],
         NEW id \in Events \cup {NoCursor}, NEW newest,
         newest # NoCursor => C # <<>> /\ newest = Last(Last(C)),
         NEW frames, frames = Greeting(id, buffer, newest)
  PROVE  /\ Notes(frames)
         /\ \A i \in DOMAIN C : (id # NoCursor => id < Last(C[i])) =>
              \A n \in Range(C[i]) : Carries(frames, n) \/ Resets(frames, id)
<1>1. \/ id \in {NoCursor, newest} /\ frames = Ready(FALSE)
      \/ frames = Ready(TRUE)
      \/ /\ id \notin {NoCursor, newest}
         /\ \E p \in DOMAIN buffer : Last(buffer[p]) = id /\ Resumes(frames, buffer, p)
  BY ONLY GreetingCases, buffer \in Seq(Texts), frames = Greeting(id, buffer, newest)
<1>2. ASSUME NEW reset \in BOOLEAN, frames = Ready(reset)
      PROVE  /\ frames # <<>> /\ 1 \in DOMAIN frames /\ ~IsEvent(frames[1])
             /\ frames[1].replayReset = reset
  <2>1. /\ Ready(reset) # <<>> /\ Ready(reset)[1].replayReset = reset
        /\ ~IsEvent(Ready(reset)[1])
    BY ReadyFrame
  <2>2. 1 \in DOMAIN Ready(reset)
    BY DEF Ready
  <2> QED
    BY <1>2, <2>1, <2>2
<1>3. Notes(frames)
  <2>1. ASSUME NEW p \in DOMAIN buffer, Resumes(frames, buffer, p)
        PROVE  Notes(frames)
    <3>1. frames \in Seq(Frames) /\ frames # <<>> /\ ~IsEvent(frames[1])
      BY <2>1 DEF Resumes
    <3>2. 1 \in DOMAIN frames
      BY <3>1, FirstFrame
    <3> QED
      BY <3>1, <3>2 DEF Notes
  <2> QED
    BY <1>1, <1>2, <2>1 DEF Notes
<1>4. ASSUME NEW i \in DOMAIN C, NEW n \in Range(C[i]), id # NoCursor => id < Last(C[i])
      PROVE  Carries(frames, n) \/ Resets(frames, id)
  <2>1. CASE frames = Ready(TRUE)
    BY <1>2, <2>1 DEF Resets
  <2>2. CASE id = NoCursor /\ frames = Ready(FALSE)
    BY <1>2, <2>2 DEF Resets
  <2>3. CASE id # NoCursor /\ id = newest
    <3>1. C # <<>> /\ id = Last(Last(C)) /\ id < Last(C[i])
      BY <1>4, <2>3
    <3>2. Len(C) \in DOMAIN C /\ Last(C) = C[Len(C)] /\ i \in 1 .. Len(C) /\ Len(C) \in Nat
      BY <3>1 DEF Last
    <3>3. C[i] \in Texts
      OBVIOUS
    <3>4. Last(C[i]) \in Nat /\ id \in Nat
      BY <2>3, <3>3, LastEvent DEF Events
    <3>5. i = Len(C) \/ Last(C[i]) < Last(C[Len(C)])
      <4>1. i = Len(C) \/ i < Len(C)
        BY <3>2
      <4> QED
        BY <3>2, <4>1 DEF Growing
    <3>6. FALSE
      BY <3>1, <3>2, <3>4, <3>5
    <3> QED
      BY <3>6
  <2>4. ASSUME id # NoCursor, NEW p \in DOMAIN buffer, Last(buffer[p]) = id,
               Resumes(frames, buffer, p)
        PROVE  Carries(frames, n)
    <3> DEFINE offset == Len(C) - Len(buffer)
    <3>1. /\ offset \in Nat /\ Len(C) \in Nat /\ Len(buffer) \in Nat /\ p \in 1 .. Len(buffer)
          /\ offset + Len(buffer) = Len(C) /\ i \in 1 .. Len(C)
      OBVIOUS
    <3>2. buffer[p] = C[offset + p]
      OBVIOUS
    <3> HIDE DEF offset
    <3>3. offset + p \in 1 .. Len(C)
      BY <3>1
    <3>4. offset + p < i
      <4> SUFFICES ASSUME ~(offset + p < i)
                   PROVE  FALSE
        OBVIOUS
      <4>1. id < Last(C[i]) /\ id = Last(C[offset + p])
        BY <1>4, <2>4, <3>2
      <4>2. C[i] \in Texts /\ C[offset + p] \in Texts
        BY <3>1, <3>3
      <4>3. Last(C[i]) \in Nat /\ Last(C[offset + p]) \in Nat
        BY <4>2, LastEvent
      <4>4. i = offset + p \/ i < offset + p
        <5>1. i \in Nat /\ offset + p \in Nat
          BY <3>1
        <5>2. \A x, y \in Nat : x = y \/ x < y \/ y < x
          OBVIOUS
        <5> QED
          BY <5>1, <5>2
      <4>5. Last(C[i]) <= Last(C[offset + p])
        <5>1. CASE i = offset + p
          BY <4>3, <5>1
        <5>2. CASE i < offset + p
          <6>1. offset + p \in DOMAIN C
            BY <3>3
          <6>2. Last(C[i]) < Last(C[offset + p])
            BY <5>2, <6>1 DEF Growing
          <6> QED
            BY <4>3, <6>2
        <5> QED
          BY <4>4, <5>1, <5>2
      <4> QED
        BY <4>1, <4>3, <4>5
    <3> DEFINE q == i - offset
    <3>5. q \in p + 1 .. Len(buffer) /\ offset + q = i /\ q \in 1 .. Len(buffer)
      BY <3>1, <3>4
    <3> HIDE DEF q
    <3>6. buffer[q] = C[i]
      <4>1. q \in DOMAIN buffer
        BY <3>5
      <4>2. buffer[q] = C[Len(C) - Len(buffer) + q]
        BY <4>1
      <4> QED
        BY <3>5, <4>2 DEF offset
    <3>7. /\ 1 + (q - p) \in DOMAIN frames /\ IsEvent(frames[1 + (q - p)])
          /\ frames[1 + (q - p)].text = buffer[q]
      BY <2>4, <3>5 DEF Resumes
    <3>8. n \in Range(frames[1 + (q - p)].text)
      BY <3>6, <3>7
    <3> QED
      BY <3>7, <3>8 DEF Carries
  <2> QED
    BY <1>1, <2>1, <2>2, <2>3, <2>4
<1> QED
  BY <1>3, <1>4

\* What is committed while a cursor stays comes after the cursor.
LEMMA CursorCovers ==
  ASSUME TypeOK, HistoryInv, Growing(committed'), NEW c \in Clients, Delivered(c), Covered(c),
         NEW T \in Seq(Texts), committed' = committed \o T, cursor'[c] = cursor[c],
         seen'[c] = seen[c], excused[c] \subseteq excused'[c]
  PROVE  cursor'[c] # NoCursor =>
           \A i \in DOMAIN committed' : \A n \in Range(committed'[i]) \cap Missing(c)' :
             cursor'[c] < Last(committed'[i])
<1> SUFFICES ASSUME cursor[c] # NoCursor, NEW i \in DOMAIN committed',
                    NEW n \in Range(committed'[i]), n \in Missing(c)'
             PROVE  cursor[c] < Last(committed'[i])
  OBVIOUS
<1> DEFINE C == committed
           W == committed'
<1>1. C \in Seq(Texts) /\ W = C \o T /\ Growing(W)
  BY TypeParts
<1>2. /\ \A j \in DOMAIN C : j \in DOMAIN W /\ W[j] = C[j]
      /\ \A j \in DOMAIN W : \/ j \in DOMAIN C
                             \/ j > Len(C) /\ j - Len(C) \in DOMAIN T
  BY <1>1, Joined
<1>3. n \in Happened => n \in Missing(c)
  BY DEF Missing
<1> HIDE DEF W
<1>4. CASE i \in DOMAIN C
  <2>1. n \in Range(C[i])
    BY <1>2, <1>4 DEF W
  <2>2. n \in Held(committed)
    BY <1>4, <2>1 DEF Held
  <2>3. n \in Missing(c)
    BY <1>3, <2>2, CommittedApart
  <2> QED
    BY <1>2, <1>4, <2>1, <2>3 DEF Covered, W
<1>5. CASE i > Len(C)
  <2>1. PICK j \in DOMAIN C : cursor[c] = Last(C[j])
    BY DEF Delivered
  <2>2. j < i
    <3>1. j \in 1 .. Len(C) /\ Len(C) \in Nat
      BY <1>1
    <3>2. i \in Nat
      <4>1. W \in Seq(Texts)
        BY <1>1, ConcatProperties
      <4> QED
        BY <4>1 DEF W
    <3> QED
      BY <1>5, <3>1, <3>2
  <2> QED
    BY <1>1, <1>2, <2>1, <2>2 DEF Growing, W
<1> QED
  BY <1>2, <1>4, <1>5 DEF W

\* What was pending and what happens is committed, or is still pending, or lost.
LEMMA PassedOn ==
  ASSUME TypeOK, TypeOK', HistoryInv, HistoryInv', NEW T \in Seq(Texts), committed' = committed \o T,
         NEW n, n \in Happened', n \notin lost', n \notin Held(committed)
  PROVE  n \in Held(T) \/ n \in Held(pending')
<1>1. committed \in Seq(Texts)
  BY TypeParts
<1>2. n \in Held(Frozen')
  <2>1. n \in Held(Frozen)'
    BY DEF HistoryInv
  <2> QED
    BY <2>1 DEF Held
<1>3. committed' \in Seq(Texts) /\ pending' \in Seq(Texts) /\ Frozen' = committed' \o pending'
  BY DEF TypeOK, Frozen
<1>4. \A s, t \in Seq(Texts) : \A m \in Held(s \o t) : m \in Held(s) \/ m \in Held(t)
  BY HeldJoined
<1>5. n \in Held(committed' \o pending')
  BY <1>2, <1>3
<1>6. n \in Held(committed') \/ n \in Held(pending')
  BY <1>3, <1>4, <1>5
<1>7. n \in Held(committed') => n \in Held(T)
  BY <1>1, <1>4
<1> QED
  BY <1>6, <1>7

\* The hub goes on: it may commit texts, and send them to the client.
LEMMA CoveredOpen ==
  ASSUME TypeOK, TypeOK', HistoryInv, HistoryInv', Growing(committed'),
         NEW c \in Clients, Delivered(c), Covered(c),
         NEW T \in Seq(Texts), committed' = committed \o T, wire'[c] = Sent(c, T),
         cursor'[c] = cursor[c], seen'[c] = seen[c], excused'[c] = excused[c],
         socket'[c] = socket[c], Happened \subseteq Happened', lost \subseteq lost',
         lost' = lost \/ reader' = "dialing", reader' = reader \/ reader' = "dialing"
  PROVE  Covered(c)'
<1>1. cursor'[c] # NoCursor =>
        \A i \in DOMAIN committed' : \A n \in Range(committed'[i]) \cap Missing(c)' :
          cursor'[c] < Last(committed'[i])
  BY CursorCovers
<1>2. ASSUME socket[c] = "ready", NEW n \in Missing(c)'
      PROVE  OnItsWay(c, n)'
  <2> DEFINE frames == wire[c]
             more == wire'[c]
  <2>1. frames \in Seq(Frames) /\ more = frames \o EventFrames(T)
    BY <1>2, TypeParts DEF Sent
  <2>2. /\ more \in Seq(Frames)
        /\ \A k \in DOMAIN frames : k \in DOMAIN more /\ more[k] = frames[k]
        /\ \A i \in DOMAIN T : /\ Len(frames) + i \in DOMAIN more
                               /\ IsEvent(more[Len(frames) + i])
                               /\ more[Len(frames) + i].text = T[i]
    BY <2>1, FramesJoined
  <2> HIDE DEF frames, more
  <2>3. /\ \A m : Carries(frames, m) => Carries(more, m)
        /\ Notes(frames) => Notes(more)
        /\ Resets(frames, cursor[c]) => Resets(more, cursor[c])
    BY <2>1, <2>2, FramesKept
  <2>4. n \in Held(T) => Carries(more, n)
    <3> SUFFICES ASSUME NEW i \in DOMAIN T, n \in Range(T[i])
                 PROVE  Carries(more, n)
      BY DEF Held
    <3>1. /\ Len(frames) + i \in DOMAIN more /\ IsEvent(more[Len(frames) + i])
          /\ n \in Range(more[Len(frames) + i].text)
      BY <2>2
    <3> QED
      BY <3>1 DEF Carries
  <2>5. n \in Happened' /\ n \notin seen[c] /\ n \notin excused[c]
    BY <1>2 DEF Missing
  <2>6. CASE n \notin lost' /\ n \notin Held(committed)
    <3>1. n \in Held(T) \/ n \in Held(pending')
      BY <2>5, <2>6, PassedOn
    <3>2. n \in Held(pending') => n \in Held(pending)'
      BY DEF Held
    <3> QED
      BY <2>4, <3>1, <3>2 DEF OnItsWay, more
  <2>7. CASE n \in lost' /\ reader' = "dialing"
    BY <2>7 DEF OnItsWay
  <2>8. CASE n \in Held(committed) \/ (n \in lost /\ lost' = lost /\ reader' = reader)
    <3>1. n \in Missing(c) /\ n \notin Held(pending)
      <4>1. n \in Happened /\ n \notin Held(pending)
        BY <2>8, CommittedApart
      <4> QED
        BY <2>5, <4>1 DEF Missing
    <3>2. OnItsWay(c, n)
      BY <1>2, <3>1 DEF Covered
    <3>3. \/ Carries(frames, n)
          \/ n \in lost /\ (reader = "dialing" \/ Notes(frames))
          \/ Resets(frames, cursor[c])
      BY <3>1, <3>2 DEF OnItsWay, frames
    <3>4. n \in lost => n \in lost' /\ reader' = reader
      BY <2>8, CommittedApart
    <3>5. \/ Carries(more, n)
          \/ n \in lost' /\ (reader' = "dialing" \/ Notes(more))
          \/ Resets(more, cursor'[c])
      BY <2>3, <3>3, <3>4
    <3> QED
      BY <3>5 DEF OnItsWay, more
  <2> QED
    BY <2>6, <2>7, <2>8
<1> QED
  BY <1>1, <1>2 DEF Covered

\* A socket that is not ready is owed nothing.
LEMMA CoveredIdle ==
  ASSUME TypeOK, HistoryInv, Growing(committed'), NEW c \in Clients, Delivered(c), Covered(c),
         committed' = committed, cursor'[c] = cursor[c], seen'[c] = seen[c],
         excused'[c] = excused[c], socket'[c] # "ready"
  PROVE  Covered(c)'
<1>1. <<>> \in Seq(Texts) /\ committed' = committed \o <<>>
  BY SentNothing
<1>2. cursor'[c] # NoCursor =>
        \A i \in DOMAIN committed' : \A n \in Range(committed'[i]) \cap Missing(c)' :
          cursor'[c] < Last(committed'[i])
  BY <1>1, CursorCovers
<1> QED
  BY <1>2 DEF Covered

\* A client is greeted when nothing is pending.
LEMMA CoveredGreeting ==
  ASSUME TypeOK, TypeOK', HistoryInv, HistoryInv', ReplayInv', Growing(committed'),
         NEW c \in Clients, Delivered(c), Covered(c),
         NEW T \in Seq(Texts), committed' = committed \o T, pending' = <<>>,
         wire'[c] = Greeting(cursor[c], replay', latest'),
         cursor'[c] = cursor[c], seen'[c] = seen[c], excused'[c] = excused[c]
  PROVE  Covered(c)'
<1> DEFINE more == wire'[c]
           W == committed'
<1>1. cursor'[c] # NoCursor =>
        \A i \in DOMAIN W : \A n \in Range(W[i]) \cap Missing(c)' : cursor'[c] < Last(W[i])
  BY CursorCovers
<1>2. /\ W \in Seq(Texts) /\ replay' \in Seq(Texts)
      /\ cursor[c] \in Events \cup {NoCursor}
  BY TypeParts DEF TypeOK
<1>3. /\ Len(replay') <= Len(W)
      /\ \A i \in DOMAIN replay' : replay'[i] = W[Len(W) - Len(replay') + i]
      /\ latest' # NoCursor => W # <<>> /\ latest' = Last(Last(W))
  BY DEF ReplayInv
<1>4. Growing(W) /\ more = Greeting(cursor[c], replay', latest')
  OBVIOUS
<1> HIDE DEF W, more
<1>5. /\ Notes(more)
      /\ \A i \in DOMAIN W : (cursor[c] # NoCursor => cursor[c] < Last(W[i])) =>
           \A n \in Range(W[i]) : Carries(more, n) \/ Resets(more, cursor[c])
  BY ONLY <1>2, <1>3, <1>4, GreetingCovers
<1>6. ASSUME NEW n \in Missing(c)'
      PROVE  OnItsWay(c, n)'
  <2>1. n \in Happened'
    BY <1>6 DEF Missing
  <2>2. CASE n \in lost'
    BY <1>5, <2>2 DEF OnItsWay, more
  <2>3. CASE n \notin lost'
    <3>1. n \in Held(W)
      <4>1. n \in Held(committed) \/ n \in Held(T) \/ n \in Held(pending')
        BY <2>1, <2>3, PassedOn
      <4>2. \A m : m \in Held(committed) \/ m \in Held(T) => m \in Held(committed \o T)
        <5>1. committed \in Seq(Texts)
          BY TypeParts
        <5> QED
          BY <5>1, HeldJoined
      <4> QED
        BY <4>1, <4>2, NothingHeld DEF W
    <3>2. PICK i \in DOMAIN W : n \in Range(W[i])
      BY <3>1 DEF Held
    <3>3. cursor[c] # NoCursor => cursor[c] < Last(W[i])
      BY <1>1, <1>6, <3>2
    <3>4. Carries(more, n) \/ Resets(more, cursor[c])
      BY <1>5, <3>2, <3>3
    <3> QED
      BY <3>4 DEF OnItsWay, more
  <2> QED
    BY <2>2, <2>3
<1> QED
  BY <1>1, <1>6 DEF Covered, W

\* The upstream is connected again, and the client is told.
LEMMA CoveredAnnounced ==
  ASSUME TypeOK, HistoryInv, Growing(committed'), NEW c \in Clients, Delivered(c), Covered(c),
         committed' = committed, pending' = pending, log' = log, lost' = lost,
         cursor'[c] = cursor[c], seen'[c] = seen[c], excused'[c] = excused[c],
         socket[c] = "ready", wire'[c] = wire[c] \o Ready(FALSE)
  PROVE  Covered(c)'
<1> DEFINE frames == wire[c]
           more == wire'[c]
<1>1. <<>> \in Seq(Texts) /\ committed' = committed \o <<>>
  BY SentNothing
<1>2. cursor'[c] # NoCursor =>
        \A i \in DOMAIN committed' : \A n \in Range(committed'[i]) \cap Missing(c)' :
          cursor'[c] < Last(committed'[i])
  BY <1>1, CursorCovers
<1>3. frames \in Seq(Frames) /\ more = frames \o Ready(FALSE)
  BY TypeParts
<1>4. /\ more \in Seq(Frames)
      /\ \A k \in DOMAIN frames : k \in DOMAIN more /\ more[k] = frames[k]
      /\ Len(frames) + 1 \in DOMAIN more /\ ~IsEvent(more[Len(frames) + 1])
  BY <1>3, ReadyJoined
<1> HIDE DEF frames, more
<1>5. /\ \A m : Carries(frames, m) => Carries(more, m)
      /\ Resets(frames, cursor[c]) => Resets(more, cursor[c])
  BY <1>3, <1>4, FramesKept
<1>6. Notes(more)
  BY <1>4 DEF Notes
<1>7. ASSUME NEW n \in Missing(c)'
      PROVE  OnItsWay(c, n)'
  <2>1. n \in Missing(c)
    BY <1>7 DEF Missing, Happened
  <2>2. OnItsWay(c, n)
    BY <2>1 DEF Covered
  <2>3. n \in Held(pending) => n \in Held(pending)'
    BY DEF Held
  <2> QED
    BY <1>5, <1>6, <2>2, <2>3 DEF OnItsWay, frames, more
<1> QED
  BY <1>2, <1>7 DEF Covered

\* The upstream is connected after a rebind, and nobody is told what was lost.
LEMMA CoveredExcused ==
  ASSUME TypeOK, HistoryInv, Growing(committed'), NEW c \in Clients, Delivered(c), Covered(c),
         committed' = committed, pending' = pending, log' = log, lost' = lost,
         cursor'[c] = cursor[c], seen'[c] = seen[c], excused'[c] = excused[c] \cup lost,
         socket[c] = "ready", wire'[c] = wire[c]
  PROVE  Covered(c)'
<1>1. <<>> \in Seq(Texts) /\ committed' = committed \o <<>>
  BY SentNothing
<1>2. cursor'[c] # NoCursor =>
        \A i \in DOMAIN committed' : \A n \in Range(committed'[i]) \cap Missing(c)' :
          cursor'[c] < Last(committed'[i])
  BY <1>1, CursorCovers
<1>3. ASSUME NEW n \in Missing(c)'
      PROVE  OnItsWay(c, n)'
  <2>1. n \in Missing(c) /\ n \notin lost
    BY <1>3 DEF Missing, Happened
  <2>2. OnItsWay(c, n)
    BY <2>1 DEF Covered
  <2>3. n \in Held(pending) => n \in Held(pending)'
    BY DEF Held
  <2> QED
    BY <2>1, <2>2, <2>3 DEF OnItsWay
<1> QED
  BY <1>2, <1>3 DEF Covered

\* The client receives a ready and will not read for it: it is excused what is
\* not on its way to it, and still misses that.
LEMMA CoveredReady ==
  ASSUME TypeOK, HistoryInv, NEW c \in Clients, Delivered(c), Covered(c), Receive(c),
         ~IsEvent(Head(wire[c])), bootRead[c], resync'[c] # "asked"
  PROVE  Covered(c)'
<1> DEFINE frames == wire[c]
           rest == Tail(wire[c])
           frame == Head(wire[c])
           id == cursor'[c]
<1>1. /\ frames \in Seq(Frames) /\ frames # <<>> /\ wire'[c] = rest
      /\ UNCHANGED <<committed, pending, socket, log, lost, reader>>
  BY ReceiveSteps, TypeParts
<1>2. /\ frame = frames[1]
      /\ \A k \in DOMAIN rest : 1 + k \in DOMAIN frames /\ rest[k] = frames[1 + k]
      /\ \A k \in DOMAIN frames : k = 1 \/ \E m \in DOMAIN rest : k = 1 + m
  BY <1>1, FirstFrame
<1>3. Happened' = Happened
  BY <1>1 DEF Happened
<1>4. /\ seen'[c] = seen[c] /\ excused'[c] = excused[c] \cup Missed(c, id)
      /\ id = IF frame.replayReset THEN NoCursor ELSE cursor[c]
      /\ frame.replayReset \in BOOLEAN /\ ~IsEvent(frame)
  BY ReceiveSteps
<1> HIDE DEF id
<1>5. \A n \in Missing(c)' : n \in Missing(c) /\ n \in Coming(c, id)
  BY <1>3, <1>4 DEF Missing, Missed, Unseen
<1>6. ASSUME NEW n, Carries(frames, n)
      PROVE  Carries(rest, n)
  <2>1. PICK k \in DOMAIN frames : IsEvent(frames[k]) /\ n \in Range(frames[k].text)
    BY <1>6 DEF Carries
  <2>2. k # 1
    BY <1>2, <1>4, <2>1
  <2>3. PICK m \in DOMAIN rest : k = 1 + m
    BY <1>2, <2>2
  <2> HIDE DEF rest, frames
  <2>4. rest[m] = frames[k]
    BY <1>2, <2>3
  <2> QED
    BY <2>1, <2>4 DEF Carries
<1>7. ASSUME socket[c] = "ready", NEW n \in Missing(c)'
      PROVE  OnItsWay(c, n)'
  <2>1. n \in Held(pending) => OnItsWay(c, n)'
    BY <1>1 DEF OnItsWay, Held
  <2>2. Carries(frames, n) => OnItsWay(c, n)'
    BY <1>1, <1>6 DEF OnItsWay
  <2>3. CASE n \in OnWire(c)
    BY <2>2, <2>3, OnWireCarries
  <2>4. CASE id # NoCursor /\ n \in After(id)
    <3>1. n \in Held(committed)
      BY <2>4 DEF After, Held, Range
    <3>2. n \notin Held(pending) /\ n \notin lost
      BY <3>1, CommittedApart
    <3>3. ~Resets(frames, cursor[c])
      BY <1>2, <1>4, <2>4 DEF Resets
    <3>4. OnItsWay(c, n)
      BY <1>5, <1>7 DEF Covered
    <3> QED
      BY <2>2, <3>2, <3>3, <3>4 DEF OnItsWay
  <2> QED
    BY <1>5, <1>7, <2>1, <2>3, <2>4 DEF Coming
<1>8. cursor'[c] # NoCursor =>
        \A i \in DOMAIN committed' : \A n \in Range(committed'[i]) \cap Missing(c)' :
          cursor'[c] < Last(committed'[i])
  <2>1. cursor'[c] = NoCursor \/ cursor'[c] = cursor[c]
    BY <1>4 DEF id
  <2> QED
    BY <1>1, <1>5, <2>1 DEF Covered
<1>9. socket'[c] = socket[c]
  BY <1>1
<1> QED
  BY <1>7, <1>8, <1>9 DEF Covered

\* A re-read has a part only: the client is excused what it did not read and
\* what is not on its way to it.
LEMMA CoveredPart ==
  ASSUME TypeOK, HistoryInv, NEW c \in Clients, Delivered(c), ReadFails(c), bootRead[c]
  PROVE  Covered(c)'
<1> DEFINE id == IF socket[c] = "ready" THEN NoCursor ELSE cursor[c]
<1>1. UNCHANGED <<log, committed, pending, socket, wire, cursor, lost>>
  <2>1. UNCHANGED <<log, hub, bridge, wire, cursor, fresh, got, lost>>
    BY AloneKeeps DEF Alone
  <2> QED
    BY <2>1 DEF hub, bridge
<1>2. \A n \in Missing(c)' : n \in Coming(c, id)
  <2> DEFINE more == Missed(c, id)
  <2>1. PICK part \in SUBSET Unseen(c) :
          /\ seen' = [seen EXCEPT ![c] = @ \cup part]
          /\ excused' = [excused EXCEPT ![c] = IF bootRead[c] THEN @ \cup (more \ part) ELSE @]
    BY DEF ReadFails
  <2> HIDE DEF more
  <2>2. seen'[c] = seen[c] \cup part /\ excused'[c] = excused[c] \cup (more \ part)
    BY <2>1, TypeParts
  <2>3. Happened' = Happened
    BY <1>1 DEF Happened
  <2> QED
    BY <2>2, <2>3 DEF Missing, Missed, Unseen, more
<1> HIDE DEF id
<1>3. ASSUME socket[c] = "ready", NEW n \in Missing(c)'
      PROVE  OnItsWay(c, n)'
  <2>1. n \in Held(pending) \/ n \in OnWire(c)
    BY <1>2, <1>3 DEF Coming, id
  <2>2. n \in OnWire(c) => Carries(wire[c], n)
    BY OnWireCarries
  <2> QED
    BY <1>1, <2>1, <2>2 DEF OnItsWay, Held
<1>4. ASSUME cursor[c] # NoCursor, NEW i \in DOMAIN committed, NEW n \in Range(committed[i]),
             n \in Missing(c)'
      PROVE  cursor[c] < Last(committed[i])
  <2>1. n \in Held(committed)
    BY <1>4 DEF Held
  <2>2. n \notin Held(pending)
    BY <2>1, CommittedApart
  <2>3. PICK j \in DOMAIN committed : n \in Range(committed[j]) /\ Last(committed[j]) > cursor[c]
    <3>1. CASE n \in OnWire(c)
      <4>1. PICK k \in DOMAIN wire[c] : IsEvent(wire[c][k]) /\ n \in Range(wire[c][k].text)
        BY <3>1, OnWireCarries DEF Carries
      <4>2. wire[c][k].text \in Range(committed) /\ cursor[c] < Last(wire[c][k].text)
        BY <4>1 DEF Delivered, Line
      <4>3. PICK j \in DOMAIN committed : wire[c][k].text = committed[j]
        BY <4>2 DEF Range
      <4>4. committed[j] \in Texts
        BY TypeParts
      <4>5. Last(committed[j]) \in Nat /\ cursor[c] \in Nat
        BY <4>4, LastEvent, TypeParts DEF Events, NoCursor
      <4> QED
        BY <4>1, <4>2, <4>3, <4>5
    <3>2. CASE n \in After(cursor[c])
      BY <3>2 DEF After, Range
    <3> QED
      BY <1>2, <1>4, <2>2, <3>1, <3>2 DEF Coming, id
  <2>4. i = j
    BY <1>4, <2>3, CommittedApart
  <2>5. committed[j] \in Texts
    BY TypeParts
  <2>6. Last(committed[j]) \in Nat /\ cursor[c] \in Nat
    BY <2>5, LastEvent, TypeParts DEF Events, NoCursor
  <2> QED
    BY <2>3, <2>4, <2>6
<1> QED
  BY <1>1, <1>3, <1>4 DEF Covered

\* A step of the client that leaves the stream alone, with nothing missed more.
LEMMA CoveredStays ==
  ASSUME NEW c \in Clients, Alone(c), Covered(c), Missing(c)' \subseteq Missing(c)
  PROVE  Covered(c)'
<1>1. UNCHANGED <<committed, pending, socket, wire, cursor, lost, reader>>
  <2>1. UNCHANGED <<log, hub, bridge, wire, cursor, fresh, got, lost>>
    BY AloneKeeps
  <2> QED
    BY <2>1 DEF hub, bridge
<1>2. \A n : OnItsWay(c, n) => OnItsWay(c, n)'
  BY <1>1 DEF OnItsWay, Held
<1> QED
  BY <1>1, <1>2 DEF Covered

\* What the client does by itself leaves it covered, or about to read.
LEMMA CoveredAlone ==
  ASSUME TypeOK, HistoryInv, NEW c \in Clients, Delivered(c), ReadAhead(c) \/ Covered(c), Alone(c)
  PROVE  ReadAhead(c)' \/ Covered(c)'
<1>1. Happened' = Happened
  BY AloneKeeps DEF Happened
<1>2. CASE BootReads(c) \/ ReadAnswered(c)
  <2>1. seen'[c] = seen[c] \cup Happened
    BY <1>2, TypeParts DEF BootReads, ReadAnswered
  <2>2. \A n : n \notin Missing(c)'
    BY <1>1, <2>1 DEF Missing
  <2> QED
    BY <2>2 DEF Covered
<1>3. CASE StaleStatus(c)
  BY <1>3, TypeParts DEF StaleStatus, ReadAhead
<1>4. CASE ReadFails(c)
  <2>1. bootRead' = bootRead
    BY <1>4 DEF ReadFails, Answered
  <2> QED
    BY <1>4, <2>1, CoveredPart DEF ReadAhead
<1>5. CASE BootEnds(c) \/ ReadEnds(c)
  <2>1. seen' = seen /\ excused' = excused /\ bootRead' = bootRead
    BY <1>5 DEF BootEnds, ReadEnds
  <2>2. resync'[c] = resync[c] \/ resync[c] = "answered"
    BY <1>5 DEF BootEnds, ReadEnds
  <2>3. Missing(c)' = Missing(c)
    BY <1>1, <2>1 DEF Missing
  <2> QED
    BY <2>1, <2>2, <2>3, CoveredStays DEF ReadAhead
<1> QED
  BY <1>2, <1>3, <1>4, <1>5 DEF Alone

\* The client reads an event: what it misses comes later.
\* The client reads an event: what it misses comes later.
LEMMA CoveredEvent ==
  ASSUME TypeOK, HistoryInv, NEW c \in Clients, Delivered(c), Covered(c), Receive(c),
         IsEvent(Head(wire[c]))
  PROVE  Covered(c)'
<1> DEFINE C == committed
           frames == wire[c]
           rest == Tail(wire[c])
           text == Head(wire[c]).text
<1>1. /\ frames \in Seq(Frames) /\ frames # <<>> /\ wire'[c] = rest
      /\ UNCHANGED <<committed, pending, socket, log, lost, reader>>
  BY ReceiveSteps, TypeParts
<1>2. /\ Head(frames) = frames[1] /\ 1 \in DOMAIN frames
      /\ DOMAIN rest \subseteq Nat \ {0}
      /\ \A k \in DOMAIN rest : 1 + k \in DOMAIN frames /\ rest[k] = frames[1 + k]
      /\ \A k \in DOMAIN frames : k = 1 \/ \E m \in DOMAIN rest : k = 1 + m
  BY <1>1, FirstFrame
<1>3. /\ cursor'[c] = Last(text) /\ seen'[c] = seen[c] \cup Range(text)
      /\ excused'[c] = excused[c]
  BY ReceiveSteps
<1>4. Happened' = Happened
  BY <1>1 DEF Happened
<1>5. \A n \in Missing(c)' : n \in Missing(c) /\ n \notin Range(text)
  BY <1>3, <1>4 DEF Missing
<1>6. socket[c] = "ready" /\ Line(frames, cursor[c], C)
  BY <1>1 DEF Delivered
<1>7. text = frames[1].text /\ IsEvent(frames[1])
  BY <1>2
<1> HIDE DEF C, frames, rest, text
<1>8. ASSUME NEW n \in Missing(c)'
      PROVE  \/ n \in Held(pending)
             \/ \E m \in DOMAIN rest : IsEvent(rest[m]) /\ n \in Range(rest[m].text)
             \/ n \in lost /\ (reader = "dialing" \/ Notes(rest))
  <2>1. OnItsWay(c, n) /\ n \notin Range(text)
    BY <1>5, <1>6, <1>8 DEF Covered
  <2>2. ~Resets(frames, cursor[c])
    BY <1>7 DEF Resets
  <2>3. ASSUME NEW k \in DOMAIN frames, ~IsEvent(frames[k]) \/ n \in Range(frames[k].text)
        PROVE  \E m \in DOMAIN rest : rest[m] = frames[k]
    <3>1. k # 1
      BY <1>7, <2>1, <2>3
    <3> QED
      BY <1>2, <3>1
  <2>4. Notes(frames) => Notes(rest)
    BY <2>3 DEF Notes
  <2>5. Carries(frames, n) =>
          \E m \in DOMAIN rest : IsEvent(rest[m]) /\ n \in Range(rest[m].text)
    BY <2>3 DEF Carries
  <2> QED
    BY <2>1, <2>2, <2>4, <2>5 DEF OnItsWay, frames
<1>9. ASSUME NEW n \in Missing(c)'
      PROVE  OnItsWay(c, n)'
  <2>1. n \in Held(pending) => n \in Held(pending)'
    BY <1>1 DEF Held
  <2> QED
    BY <1>1, <1>8, <1>9, <2>1 DEF OnItsWay, Carries
<1>10. ASSUME NEW i \in DOMAIN C, NEW n \in Range(C[i]), n \in Missing(c)'
       PROVE  cursor'[c] < Last(C[i])
  <2>1. n \in Held(committed)
    BY <1>10 DEF Held, C
  <2>2. n \notin Held(pending) /\ n \notin lost
    BY <2>1, CommittedApart
  <2>3. PICK m \in DOMAIN rest : IsEvent(rest[m]) /\ n \in Range(rest[m].text)
    BY <1>8, <1>10, <2>2
  <2>4. 1 + m \in DOMAIN frames /\ rest[m] = frames[1 + m] /\ 1 < 1 + m
    BY <1>2
  <2>5. /\ Last(text) < Last(rest[m].text) /\ rest[m].text \in Range(C)
    BY <1>2, <1>6, <1>7, <2>3, <2>4 DEF Line
  <2>6. PICK j \in DOMAIN C : rest[m].text = C[j]
    BY <2>5 DEF Range
  <2>7. i = j
    BY <1>10, <2>3, <2>6, CommittedApart DEF C
  <2> QED
    BY <1>3, <2>5, <2>6, <2>7
<1>11. committed' = C
  BY <1>1 DEF C
<1> QED
  BY <1>9, <1>10, <1>11 DEF Covered

\* What a step does to what a client is owed.
GapStep(c) ==
  \/ /\ cursor'[c] = cursor[c] /\ seen'[c] = seen[c] /\ excused'[c] = excused[c]
     /\ bootRead'[c] = bootRead[c] /\ resync'[c] = resync[c]
     /\ \/ /\ \E T \in Seq(Texts) : committed' = committed \o T /\ wire'[c] = Sent(c, T)
           /\ socket'[c] = socket[c] /\ Happened \subseteq Happened' /\ lost \subseteq lost'
           /\ lost' = lost \/ reader' = "dialing"
           /\ reader' = reader \/ reader' = "dialing"
        \/ committed' = committed /\ socket'[c] # "ready"
        \/ /\ \E T \in Seq(Texts) : committed' = committed \o T
           /\ pending' = <<>> /\ wire'[c] = Greeting(cursor[c], replay', latest')
        \/ /\ UNCHANGED <<committed, pending, log, lost>>
           /\ socket[c] = "ready" /\ wire'[c] = wire[c] \o Ready(FALSE)
  \/ /\ cursor'[c] = cursor[c] /\ seen'[c] = seen[c] /\ excused'[c] = excused[c] \cup lost
     /\ bootRead'[c] = bootRead[c] /\ resync'[c] = resync[c]
     /\ UNCHANGED <<committed, pending, log, lost>>
     /\ socket[c] = "ready" /\ wire'[c] = wire[c]
  \/ Receive(c)
  \/ Alone(c)

\* Nothing is committed, and nothing of the client changes.
LEMMA GapSame ==
  ASSUME TypeOK, NEW c \in Clients, committed' = committed, wire'[c] = wire[c],
         cursor'[c] = cursor[c], seen'[c] = seen[c], excused'[c] = excused[c],
         bootRead'[c] = bootRead[c], resync'[c] = resync[c],
         socket'[c] = socket[c], log' = log, lost' = lost,
         reader' = reader \/ reader' = "dialing"
  PROVE  GapStep(c)
<1>1. <<>> \in Seq(Texts) /\ committed' = committed \o <<>> /\ wire'[c] = Sent(c, <<>>)
  BY SentNothing
<1>2. Happened \subseteq Happened'
  BY DEF Happened
<1> QED
  BY <1>1, <1>2 DEF GapStep

\* Texts are committed, and sent to whoever is connected.
LEMMA GapEmit ==
  ASSUME TypeOK, NEW c \in Clients, NEW T \in Seq(Texts), Emit(T),
         cursor' = cursor, seen' = seen, excused' = excused, socket' = socket,
         bootRead' = bootRead, resync' = resync,
         Happened \subseteq Happened', lost' = lost, reader' = reader \/ reader' = "dialing"
  PROVE  GapStep(c)
<1>1. committed' = committed \o T /\ wire'[c] = Sent(c, T)
  BY DEF Emit, Commit
<1> QED
  BY <1>1 DEF GapStep

\* So it is when an event arrives,
LEMMA ProduceGap ==
  ASSUME TypeOK, NEW c \in Clients, NEW kind \in Kinds, Produce(kind)
  PROVE  GapStep(c)
<1> DEFINE n == Len(log')
<1>1. n \in Events /\ Happened \subseteq Happened'
  BY NextEvent DEF Produce
<1>2. <<n>> \in Texts /\ pending \in Seq(Texts)
  BY <1>1, TypeParts DEF Texts
<1>3. <<<<n>>>> \in Seq(Texts) /\ Append(pending, <<n>>) \in Seq(Texts)
      /\ Merged(n, kind) \in Seq(Texts)
  BY <1>1, <1>2, MergedType
<1>4. /\ cursor' = cursor /\ seen' = seen /\ excused' = excused /\ socket' = socket
      /\ reader' = reader /\ bootRead' = bootRead /\ resync' = resync
  BY DEF Produce, bridge, client
<1> HIDE DEF n
<1>5. \/ lost' = lost /\ (PushFragment(n, kind) \/ PushBarrier(n))
      \/ reader # "up" /\ lost' = lost \cup {n} /\ committed' = committed /\ wire' = wire
  BY DEF Produce, n
<1>6. \/ lost' = lost /\ (\/ Emit(<<<<n>>>>) \/ Emit(Merged(n, kind))
                          \/ Emit(Append(pending, <<n>>)))
      \/ lost' = lost /\ committed' = committed /\ wire' = wire
      \/ reader # "up" /\ lost' = lost \cup {n} /\ committed' = committed /\ wire' = wire
  <2>1. PushFragment(n, kind) => \/ Emit(<<<<n>>>>) \/ Emit(Merged(n, kind))
                                 \/ UNCHANGED <<replay, latest, committed, wire>>
    BY DEF PushFragment
  <2>2. PushBarrier(n) => Emit(Append(pending, <<n>>))
    BY DEF PushBarrier
  <2> QED
    BY <1>5, <2>1, <2>2
<1>7. ASSUME NEW T \in Seq(Texts), Emit(T), lost' = lost
      PROVE  GapStep(c)
  BY <1>1, <1>4, <1>7, GapEmit
<1>8. CASE /\ committed' = committed /\ wire' = wire
           /\ lost' = lost \/ (reader # "up" /\ lost' = lost \cup {n})
  <2>1. <<>> \in Seq(Texts) /\ committed' = committed \o <<>> /\ wire'[c] = Sent(c, <<>>)
    BY <1>8, SentNothing
  <2>2. reader \in {"dialing", "up"}
    BY DEF TypeOK
  <2>3. lost \subseteq lost' /\ (lost' = lost \/ reader' = "dialing")
    BY <1>4, <1>8, <2>2
  <2> QED
    BY <1>1, <1>4, <2>1, <2>3 DEF GapStep
<1> QED
  BY <1>3, <1>6, <1>7, <1>8

\* when the reader connects,
LEMMA ConnectGap ==
  ASSUME TypeOK, NEW c \in Clients, Delivered(c), Connect
  PROVE  GapStep(c)
<1>1. /\ cursor' = cursor /\ seen' = seen /\ bootRead' = bootRead /\ resync' = resync
      /\ UNCHANGED <<committed, pending, log, lost, replay, latest>>
      /\ pending = <<>>
      /\ socket'[c] = IF socket[c] = "waiting" THEN "ready" ELSE socket[c]
      /\ wire'[c] = CASE socket[c] = "waiting" -> Greeting(asked[c], replay, latest)
                      [] socket[c] = "ready" -> Announced(c)
                      [] OTHER -> <<>>
      /\ excused'[c] = IF socket[c] = "ready" /\ ~everConnected
                       THEN excused[c] \cup lost ELSE excused[c]
  BY DEF Connect, client
<1>2. CASE socket[c] = "waiting"
  <2>1. wire'[c] = Greeting(cursor[c], replay', latest') /\ excused'[c] = excused[c]
    BY <1>1, <1>2 DEF Delivered
  <2>2. <<>> \in Seq(Texts) /\ committed' = committed \o <<>>
    BY <1>1, SentNothing
  <2> QED
    BY <1>1, <2>1, <2>2 DEF GapStep
<1>3. CASE socket[c] = "ready" /\ everConnected
  <2>1. wire'[c] = wire[c] \o Ready(FALSE) /\ excused'[c] = excused[c]
    BY <1>1, <1>3 DEF Announced
  <2> QED
    BY <1>1, <1>3, <2>1 DEF GapStep
<1>4. CASE socket[c] = "ready" /\ ~everConnected
  <2>1. wire'[c] = wire[c] /\ excused'[c] = excused[c] \cup lost
    BY <1>1, <1>4 DEF Announced
  <2> QED
    BY <1>1, <1>4, <2>1 DEF GapStep
<1>5. CASE socket[c] = "closed"
  <2>1. socket'[c] # "ready" /\ excused'[c] = excused[c]
    BY <1>1, <1>5
  <2> QED
    BY <1>1, <2>1 DEF GapStep
<1> QED
  BY <1>2, <1>3, <1>4, <1>5, TypeParts

\* when sockets close,
LEMMA ClosedGap ==
  ASSUME TypeOK, NEW c \in Clients, NEW sockets, Closed(sockets), committed' = committed,
         cursor' = cursor, seen' = seen, excused' = excused, log' = log,
         bootRead' = bootRead, resync' = resync,
         \/ lost' = lost /\ (reader' = reader \/ reader' = "dialing")
         \/ c \in sockets
  PROVE  GapStep(c)
<1>1. CASE c \in sockets
  <2>1. socket'[c] # "ready"
    BY <1>1 DEF Closed
  <2> QED
    BY <2>1 DEF GapStep
<1>2. CASE c \notin sockets
  <2>1. socket'[c] = socket[c] /\ wire'[c] = wire[c]
    BY <1>2 DEF Closed
  <2> QED
    BY <1>2, <2>1, GapSame
<1> QED
  BY <1>1, <1>2

\* when one is accepted,
LEMMA AcceptGap ==
  ASSUME TypeOK, NEW c \in Clients, NEW d \in Clients, Accept(d)
  PROVE  GapStep(c)
<1>1. /\ cursor' = cursor /\ seen' = seen /\ excused' = excused
      /\ bootRead' = bootRead /\ resync' = resync
      /\ log' = log /\ lost' = lost /\ reader' = reader /\ pending \in Seq(Texts)
  BY TypeParts DEF Accept, client
<1>2. CASE reader = "up"
  <2>1. /\ committed' = committed \o pending /\ pending' = <<>>
        /\ socket' = [socket EXCEPT ![d] = "ready"]
        /\ wire'[c] = IF c = d THEN Greeting(cursor[d], replay', latest') ELSE Sent(c, pending)
    BY <1>2 DEF Accept, Commit
  <2>2. CASE c = d
    BY <1>1, <2>1, <2>2 DEF GapStep
  <2>3. CASE c # d
    <3>1. socket'[c] = socket[c] /\ Happened \subseteq Happened'
      BY <1>1, <2>1, <2>3, TypeParts DEF Happened
    <3> QED
      BY <1>1, <2>1, <2>3, <3>1 DEF GapStep
  <2> QED
    BY <2>2, <2>3
<1>3. CASE reader # "up"
  <2>1. /\ committed' = committed /\ wire' = wire
        /\ socket' = [socket EXCEPT ![d] = "waiting"]
    BY <1>3 DEF Accept
  <2>2. CASE c = d
    <3>1. socket'[c] # "ready"
      BY <2>1, <2>2, TypeParts
    <3> QED
      BY <1>1, <2>1, <3>1 DEF GapStep
  <2>3. CASE c # d
    <3>1. socket'[c] = socket[c]
      BY <2>1, <2>3, TypeParts
    <3> QED
      BY <1>1, <2>1, <3>1, GapSame
  <2> QED
    BY <2>2, <2>3
<1> QED
  BY <1>2, <1>3

\* and when another client receives a frame.
LEMMA ReceiveGap ==
  ASSUME TypeOK, NEW c \in Clients, NEW d \in Clients, Receive(d)
  PROVE  GapStep(c)
<1>1. CASE c = d
  BY <1>1 DEF GapStep
<1>2. CASE c # d
  <2>1. /\ committed' = committed /\ socket' = socket /\ log' = log /\ lost' = lost
        /\ reader' = reader /\ bootRead' = bootRead
    BY DEF Receive, hub, bridge
  <2>2. wire'[c] = wire[c]
    BY <1>2, TypeParts DEF Receive
  <2>3. \/ ReceiveReady(d, Head(wire[d]).replayReset)
        \/ ReceiveEvent(d, Head(wire[d]).text)
    BY DEF Receive
  <2>4. CASE ReceiveReady(d, Head(wire[d]).replayReset)
    <3>1. cursor'[c] = cursor[c] /\ seen'[c] = seen[c] /\ excused'[c] = excused[c]
          /\ resync'[c] = resync[c]
      BY <1>2, <2>4, TypeParts DEF ReceiveReady
    <3> QED
      BY <2>1, <2>2, <3>1, GapSame
  <2>5. CASE ReceiveEvent(d, Head(wire[d]).text)
    <3>1. cursor'[c] = cursor[c] /\ seen'[c] = seen[c] /\ excused'[c] = excused[c]
          /\ resync'[c] = resync[c]
      BY <1>2, <2>5, TypeParts DEF ReceiveEvent
    <3> QED
      BY <2>1, <2>2, <3>1, GapSame
  <2> QED
    BY <2>3, <2>4, <2>5
<1> QED
  BY <1>1, <1>2

\* So is what another client does by itself.
LEMMA AloneGap ==
  ASSUME TypeOK, NEW c \in Clients, NEW d \in Clients, Alone(d)
  PROVE  GapStep(c)
<1>1. CASE c = d
  BY <1>1 DEF GapStep
<1>2. CASE c # d
  <2>1. UNCHANGED <<log, hub, bridge, wire, cursor, fresh, got, lost>>
    BY AloneKeeps
  <2>2. /\ seen'[c] = seen[c] /\ bootRead'[c] = bootRead[c] /\ resync'[c] = resync[c]
        /\ excused'[c] = excused[c]
    BY <1>2, TypeParts DEF Alone, BootEnds, BootReads, StaleStatus, Answered, ReadAnswered,
                           ReadFails, ReadEnds
  <2> QED
    BY <2>1, <2>2, GapSame DEF hub, bridge
<1> QED
  BY <1>1, <1>2

\* Every step is one of these to a client.
LEMMA GapSteps ==
  ASSUME TypeOK, [Next]_vars, NEW c \in Clients, Delivered(c)
  PROVE  GapStep(c)
<1>0. pending \in Seq(Texts)
  BY TypeParts
<1>1. CASE WindowEnds
  <2>1. /\ Emit(pending) /\ cursor' = cursor /\ seen' = seen /\ excused' = excused
        /\ bootRead' = bootRead /\ resync' = resync
        /\ socket' = socket /\ Happened \subseteq Happened' /\ lost' = lost /\ reader' = reader
    BY <1>1 DEF WindowEnds, bridge, client, Happened
  <2> QED
    BY <1>0, <2>1, GapEmit
<1>2. CASE Rebind
  <2>1. /\ Emit(pending) /\ cursor' = cursor /\ seen' = seen /\ excused' = excused
        /\ bootRead' = bootRead /\ resync' = resync
        /\ socket' = socket /\ Happened \subseteq Happened' /\ lost' = lost
        /\ reader' = "dialing"
    BY <1>2 DEF Rebind, bridge, client, Happened
  <2> QED
    BY <1>0, <2>1, GapEmit
<1>3. CASE UpstreamBreaks
  BY <1>3, GapSame DEF UpstreamBreaks, bridge, client
<1>4. CASE InitialError
  BY <1>4, ClosedGap DEF InitialError, hub, reads
<1>5. CASE ServerRestarts
  BY <1>5, ClosedGap DEF ServerRestarts, reads
<1>6. ASSUME NEW d \in Clients, Accept(d) \/ SocketCloses(d) \/ Receive(d) \/ Alone(d)
      PROVE  GapStep(c)
  <2>1. CASE SocketCloses(d)
    BY <2>1, ClosedGap DEF SocketCloses, hub, reads
  <2> QED
    BY <1>6, <2>1, AcceptGap, ReceiveGap, AloneGap
<1>7. CASE UNCHANGED vars
  BY <1>7, GapSame DEF vars, hub, bridge, client
<1> QED
  BY <1>1, <1>2, <1>3, <1>4, <1>5, <1>6, <1>7, ProduceGap, ConnectGap DEF Next, Alone

\* Every client is covered, unless it is about to read.
CoverageInv == \A c \in Clients : ReadAhead(c) \/ Covered(c)

\* Every step keeps each client covered.
LEMMA CoverageNext ==
  ASSUME TypeOK, HistoryInv, ReplayInv, DeliveryInv, CoverageInv, [Next]_vars
  PROVE  CoverageInv'
<1>1. TypeOK' /\ HistoryInv' /\ ReplayInv'
  BY NextType, HistoryNext, ReplayNext
<1>2. Growing(committed')
  <2>1. Ordered(committed' \o pending', log', lost')
    BY <1>1 DEF HistoryInv, Frozen
  <2>2. committed' \in Seq(Texts) /\ pending' \in Seq(Texts)
    BY <1>1 DEF TypeOK
  <2> QED
    BY <2>1, <2>2, OrderedFront
<1>3. ASSUME NEW c \in Clients
      PROVE  ReadAhead(c)' \/ Covered(c)'
  <2>1. /\ Delivered(c) /\ socket[c] \in {"closed", "waiting", "ready"}
        /\ ReadAhead(c) \/ Covered(c)
        /\ GapStep(c)
    BY GapSteps, TypeParts DEF DeliveryInv, CoverageInv
  <2>2. CASE Receive(c)
    BY <2>1, <2>2, ReceiveSteps, CoveredReady, CoveredEvent DEF ReadAhead
  <2>3. CASE Alone(c)
    BY <2>1, <2>3, CoveredAlone
  <2>4. CASE ReadAhead(c) /\ bootRead'[c] = bootRead[c] /\ resync'[c] = resync[c]
    BY <2>4 DEF ReadAhead
  <2> SUFFICES ASSUME ~Receive(c), ~Alone(c), Covered(c)
               PROVE  Covered(c)'
    BY <2>1, <2>2, <2>3, <2>4 DEF GapStep
  <2>5. CASE /\ cursor'[c] = cursor[c] /\ seen'[c] = seen[c] /\ excused'[c] = excused[c]
             /\ \E T \in Seq(Texts) : committed' = committed \o T /\ wire'[c] = Sent(c, T)
             /\ socket'[c] = socket[c] /\ Happened \subseteq Happened' /\ lost \subseteq lost'
             /\ lost' = lost \/ reader' = "dialing"
             /\ reader' = reader \/ reader' = "dialing"
    BY <1>1, <1>2, <2>1, <2>5, CoveredOpen
  <2>6. CASE /\ cursor'[c] = cursor[c] /\ seen'[c] = seen[c] /\ excused'[c] = excused[c]
             /\ committed' = committed /\ socket'[c] # "ready"
    BY <1>2, <2>1, <2>6, CoveredIdle
  <2>7. CASE /\ cursor'[c] = cursor[c] /\ seen'[c] = seen[c] /\ excused'[c] = excused[c]
             /\ \E T \in Seq(Texts) : committed' = committed \o T
             /\ pending' = <<>> /\ wire'[c] = Greeting(cursor[c], replay', latest')
    BY <1>1, <1>2, <2>1, <2>7, CoveredGreeting
  <2>8. CASE /\ cursor'[c] = cursor[c] /\ seen'[c] = seen[c] /\ excused'[c] = excused[c]
             /\ UNCHANGED <<committed, pending, log, lost>>
             /\ socket[c] = "ready" /\ wire'[c] = wire[c] \o Ready(FALSE)
    BY <1>2, <2>1, <2>8, CoveredAnnounced
  <2>9. CASE /\ cursor'[c] = cursor[c] /\ seen'[c] = seen[c]
             /\ excused'[c] = excused[c] \cup lost
             /\ UNCHANGED <<committed, pending, log, lost>>
             /\ socket[c] = "ready" /\ wire'[c] = wire[c]
    BY <1>2, <2>1, <2>9, CoveredExcused
  <2> QED
    BY <2>1, <2>5, <2>6, <2>7, <2>8, <2>9 DEF GapStep
<1> QED
  BY <1>3 DEF CoverageInv

\* Nothing happened at first, so nobody misses it.
LEMMA CoverageInit ==
  ASSUME Init
  PROVE  CoverageInv
BY DEF Init, CoverageInv, ReadAhead

\* Whatever a client misses it is about to read, or it is on its way to it, still to be
\* sent, within reach of the cursor it will come back with, or already excused: the
\* reason no gap is silent.
THEOREM CoverageCorrect == Spec => []CoverageInv
<1>1. Init => CoverageInv
  BY CoverageInit
<1>2. TypeOK /\ HistoryInv /\ ReplayInv /\ DeliveryInv /\ CoverageInv /\ [Next]_vars => CoverageInv'
  BY CoverageNext
<1> QED
  BY <1>1, <1>2, DeliveryCorrect, PTL DEF Spec

\* A client that is connected, with nothing on its way and no read under way,
\* has got or read every event, except those it is known to miss: the stream
\* hid them, and no later read of OpenCode's state had them.
THEOREM NoSilentGapAlways == Spec => []NoSilentGap
<1>1. CoverageInv => NoSilentGap
  <2> SUFFICES ASSUME CoverageInv, NEW c \in Clients, CaughtUp(c), NEW n \in Unseen(c),
                      n \notin excused[c]
               PROVE  FALSE
    BY DEF NoSilentGap
  <2>1. /\ socket[c] = "ready" /\ wire[c] = <<>> /\ reader = "up" /\ pending = <<>>
        /\ ~ReadAhead(c)
    BY DEF CaughtUp, ReadAhead
  <2>2. n \in Missing(c)
    BY DEF Missing, Unseen
  <2>3. OnItsWay(c, n)
    BY <2>1, <2>2 DEF CoverageInv, Covered
  <2>4. ~Carries(<<>>, n) /\ ~Notes(<<>>) /\ ~Resets(<<>>, cursor[c])
    BY DEF Carries, Notes, Resets
  <2> QED
    BY <2>1, <2>3, <2>4, NothingHeld DEF OnItsWay
<1> QED
  BY <1>1, CoverageCorrect, PTL
=============================================================================
