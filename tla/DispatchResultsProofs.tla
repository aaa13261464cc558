------------------------- MODULE DispatchResultsProofs -------------------------
(***************************************************************************)
(* Theorems about DispatchResults, for any sessions, dispatches, limits,   *)
(* crashes and other faults: its exact types, with a bound on the ids that *)
(* are minted, and, as long as writes of the file succeed, that a result   *)
(* is delivered once.                                                      *)
(***************************************************************************)
EXTENDS DispatchResults, FiniteSetTheorems, SequenceTheorems, WellFoundedInduction, TLAPS

-----------------------------------------------------------------------------
(* The inductive invariant *)

Files == [entries : SUBSET Ids, message : [Ids -> Nat]]
Written == [file : Files, waiter : Waiters \cup {NoWaiter}]
Ticks == [phase : Phases, todo : SUBSET Ids, waiting : BOOLEAN, run : Nat, deleted : BOOLEAN]
HubEvents == [type : {"busy", "idle", "deleted"}, session : Sessions]
Sent == [id : Ids, message : Nat, run : Nat, deleted : BOOLEAN]

\* The types of what deliveries depend on.
Typed ==
  /\ server \in {"down", "loading", "up"}
  /\ entries \subseteq Ids /\ message \in [Ids -> Nat] /\ minted \in Nat
  /\ tick \in [Sessions -> {Asleep} \cup Ticks]
  /\ disk \in Files /\ writes \in Seq(Written)
  /\ stage \in [Ids -> Stages]
  /\ route \in [Ids -> [parent : Sessions, session : Sessions]]
  /\ turn \in [Sessions -> {"idle", "running", "subagent", "gone"}]
  /\ runs \in [Sessions -> Nat] /\ records \in [Sessions -> Nat]
  /\ admitted \in [Ids -> Seq(Sent)] /\ network \subseteq Sent
  /\ events \in Seq(HubEvents)
  /\ evicted \subseteq Ids /\ forsaken \subseteq Ids

Announced == {"registering", "registered"}
LateStages == Announced \cup {"failed"}

\* A server that is not up has nothing in memory, and nobody dispatches.
Stopped ==
  server # "up" =>
    /\ writes = <<>> /\ entries = {}
    /\ \A s \in Sessions : tick[s] = Asleep
    /\ \A e \in Ids : stage[e] \notin {"baseline", "prompted", "registering"}

At(s) == Oldest(tick[s].todo)
AtEntry == {"minting", "request", "answer", "removing"}

\* A tick looks at results of its own session.
Looks ==
  \A s \in Sessions : tick[s] # Asleep =>
    /\ \A e \in tick[s].todo : route[e].session = s
    /\ tick[s].phase \in AtEntry => tick[s].todo # {}

\* What is known of a result in memory, in a file or in a tick has been
\* registered.
Registered ==
  /\ \A e \in entries \cup disk.entries : stage[e] \in LateStages
  /\ \A n \in DOMAIN writes : \A e \in writes[n].file.entries :
       stage[e] \in LateStages
  /\ \A s \in Sessions : tick[s] # Asleep =>
       \A e \in tick[s].todo : stage[e] \in LateStages

\* A tick waits for one write at most, and a write for a tick that waits.
Awaits(s) == TickIn(s, "minting") \/ TickIn(s, "removing")

Waiting ==
  \A s \in Sessions : \A n \in DOMAIN writes : writes[n].waiter = [tick |-> s] =>
    Awaits(s) /\ \A k \in DOMAIN writes : writes[k].waiter = [tick |-> s] => k = n

Agrees(file, e) == e \in file.entries => file.message[e] = message[e]

\* Entry e waits for its message id to be written.
MintingOf(e) == TickIn(route[e].session, "minting") /\ At(route[e].session) = e

\* The message id of a result is what every file says, or will say when the
\* write it waits for has ended.
IdOf(e) ==
  IF MintingOf(e)
  THEN \A n \in DOMAIN writes : writes[n].waiter = [tick |-> route[e].session] =>
         \A k \in DOMAIN writes : k >= n => Agrees(writes[k].file, e)
  ELSE Agrees(disk, e) /\ \A n \in DOMAIN writes : Agrees(writes[n].file, e)

IdsWritten == server = "up" => \A e \in Ids : IdOf(e)

\* What a result was or may be sent under.
Used(e) == {r.message : r \in {q \in network : q.id = e}}
           \cup {admitted[e][n].message : n \in DOMAIN admitted[e]}

\* Result e is known under id m, wherever it is known.
Holds(e, m) ==
  /\ m # NoMessage /\ stage[e] \in LateStages
  /\ e \in entries => message[e] = m
  /\ \A s \in Sessions : tick[s] # Asleep /\ e \in tick[s].todo => message[e] = m
  /\ e \in disk.entries => disk.message[e] = m
  /\ \A n \in DOMAIN writes : e \in writes[n].file.entries => writes[n].file.message[e] = m

\* A request is sent under an id.
Sending == \A s \in Sessions : TickIn(s, "request") => message[At(s)] # NoMessage

\* A result has been sent under one id, which nothing will change.
OneId == \A e \in Ids : \A m \in Used(e) : Holds(e, m) /\ \A k \in Used(e) : k = m

DeliveryInv ==
  /\ Typed /\ Looks /\ Stopped /\ Registered
  /\ Waiting /\ IdsWritten /\ Sending /\ OneId /\ DeliveredOnce

-----------------------------------------------------------------------------
(* Types *)

\* The oldest of some results is one of them.
LEMMA OldestIn ==
  ASSUME NEW items \in SUBSET Ids, items # {}
  PROVE  Oldest(items) \in items
<1> DEFINE less == {p \in Nat \X Nat : p[1] < p[2]}
<1>1. IsWellFoundedOn(less, Nat)
  BY NatLessThanWellFounded DEF OpToRel
<1>2. items \subseteq Nat
  BY DispatchBounds DEF Ids
<1> HIDE DEF less
<1>3. PICK e \in items : \A f \in items : ~ (<<f, e>> \in less)
  BY <1>1, <1>2, WFMin
<1>4. \A f \in items : ~ (f < e)
  BY <1>2, <1>3 DEF less
<1>5. \A f \in items : e <= f
  BY <1>2, <1>4
<1> QED
  BY <1>5 DEF Oldest

\* A file that is written is well typed, and so is the chain with it.
LEMMA PersistType ==
  ASSUME NEW chain \in Seq(Written), NEW waiter \in Waiters \cup {NoWaiter},
         entries' \subseteq Ids, message' \in [Ids -> Nat], Persist(chain, waiter)
  PROVE  writes' \in Seq(Written)
<1>1. [e \in Ids |-> IF e \in entries' THEN message'[e] ELSE NoMessage] \in [Ids -> Nat]
  BY DEF NoMessage
<1>2. Saved(entries', message') \in Files
  BY <1>1 DEF Saved, Files
<1>3. [file |-> Saved(entries', message'), waiter |-> waiter] \in Written
  BY <1>2 DEF Written
<1> QED
  BY <1>3 DEF Persist

\* A tick that goes on to an entry leaves everything well typed.
LEMMA NextEntryType ==
  ASSUME Typed, NEW s \in Sessions, NEW step \in Ticks, NEW chain \in Seq(Written),
         entries' \subseteq Ids, NextEntry(s, step, chain)
  PROVE  /\ tick' \in [Sessions -> {Asleep} \cup Ticks]
         /\ message' \in [Ids -> Nat] /\ minted' \in Nat
         /\ writes' \in Seq(Written)
         /\ \A q \in Sessions : q # s => tick'[q] = tick[q]
         /\ tick'[s] # Asleep => /\ tick'[s].todo = step.todo /\ step.todo # {}
                                 /\ tick'[s].phase \in {"minting", "request"}
<1>1. CASE step.todo # {} /\ message[Oldest(step.todo)] = NoMessage
  <2>1. /\ minted' = minted + 1
        /\ message' = [message EXCEPT ![Oldest(step.todo)] = minted']
        /\ tick' = [tick EXCEPT ![s] = [step EXCEPT !.phase = "minting"]]
        /\ Persist(chain, [tick |-> s])
    BY <1>1 DEF NextEntry
  <2>2. [step EXCEPT !.phase = "minting"] \in Ticks
    BY DEF Ticks, Phases
  <2>3. message' \in [Ids -> Nat] /\ minted' \in Nat
    <3>1. minted \in Nat /\ message \in [Ids -> Nat]
      BY DEF Typed
    <3>2. minted' \in Nat
      BY <2>1, <3>1
    <3> QED
      BY <2>1, <3>1, <3>2
  <2>4. [tick |-> s] \in Waiters \cup {NoWaiter}
    BY DEF Waiters
  <2>5. writes' \in Seq(Written)
    BY <2>1, <2>3, <2>4, PersistType
  <2>6. [step EXCEPT !.phase = "minting"].todo = step.todo
        /\ [step EXCEPT !.phase = "minting"].phase = "minting"
    BY DEF Ticks
  <2> QED
    BY <1>1, <2>1, <2>2, <2>3, <2>5, <2>6 DEF Typed
<1>2. CASE step.todo # {} /\ message[Oldest(step.todo)] # NoMessage
  <2>1. /\ tick' = [tick EXCEPT ![s] = [step EXCEPT !.phase = "request"]]
        /\ writes' = chain /\ UNCHANGED <<minted, message>>
    BY <1>2 DEF NextEntry
  <2>2. [step EXCEPT !.phase = "request"] \in Ticks
    BY DEF Ticks, Phases
  <2>3. [step EXCEPT !.phase = "request"].todo = step.todo
        /\ [step EXCEPT !.phase = "request"].phase = "request"
    BY DEF Ticks
  <2> QED
    BY <1>2, <2>1, <2>2, <2>3 DEF Typed
<1>3. CASE step.todo = {}
  BY <1>3 DEF NextEntry, LoopEnds, TickEnds, Typed
<1> QED
  BY <1>1, <1>2, <1>3

\* The request of a tick is well typed.
LEMMA RequestType ==
  ASSUME Typed, Looks, NEW s \in Sessions, TickIn(s, "request") \/ TickIn(s, "answer")
  PROVE  RequestOf(s) \in Sent /\ At(s) \in tick[s].todo /\ At(s) \in Ids
<1>1. tick[s] \in Ticks
  BY DEF TickIn, Typed
<1>2. tick[s].todo # {} /\ tick[s].todo \in SUBSET Ids
  BY <1>1 DEF Ticks, TickIn, Looks, AtEntry
<1>3. At(s) \in tick[s].todo
  BY <1>2, OldestIn DEF At
<1> QED
  BY <1>1, <1>2, <1>3 DEF RequestOf, At, Sent, Ticks, Typed

\* OpenCode keeps well-typed requests, of which it admits one more at most.
LEMMA AdmitType ==
  ASSUME Typed, NEW r \in Sent, Admit(r)
  PROVE  admitted' \in [Ids -> Seq(Sent)]
<1>1. r.id \in Ids
  BY DEF Sent
<1> QED
  BY <1>1 DEF Admit, Typed

\* A tick that moves on in place.
LEMMA PhaseType ==
  ASSUME Typed, NEW s \in Sessions, tick[s] # Asleep, NEW phase \in Phases,
         tick' = [tick EXCEPT ![s].phase = phase]
  PROVE  /\ tick' \in [Sessions -> {Asleep} \cup Ticks]
         /\ tick'[s] # Asleep /\ tick'[s].phase = phase
         /\ tick'[s].todo = tick[s].todo /\ \A q \in Sessions : q # s => tick'[q] = tick[q]
<1>1. tick[s] \in Ticks
  BY DEF Typed
<1>2. [tick[s] EXCEPT !.phase = phase] \in Ticks
  BY <1>1 DEF Ticks
<1>3. tick'[s] = [tick[s] EXCEPT !.phase = phase]
  BY DEF Typed
<1>4. tick'[s].phase = phase /\ tick'[s].todo = tick[s].todo
  BY <1>1, <1>3 DEF Ticks
<1>5. phase # "none"
  BY DEF Phases
<1> QED
  BY <1>2, <1>3, <1>4, <1>5 DEF Typed, Asleep

\* Every reachable state is well typed, and a tick has a result of its session.
THEOREM TypedCorrect == Spec => [](Typed /\ Looks)
<1>1. Init => Typed /\ Looks
  <2> SUFFICES ASSUME Init PROVE Typed /\ Looks
    OBVIOUS
  <2> USE DispatchBounds DEF Init
  <2>1. Looks
    BY DEF Looks
  <2>2. disk \in Files /\ message \in [Ids -> Nat]
    BY DEF Files, NoMessage
  <2>3. writes \in Seq(Written) /\ admitted \in [Ids -> Seq(Sent)]
    OBVIOUS
  <2>4. stage \in [Ids -> Stages]
    BY DEF Stages
  <2>5. route \in [Ids -> [parent : Sessions, session : Sessions]]
    OBVIOUS
  <2>6. turn \in [Sessions -> {"idle", "running", "subagent", "gone"}] /\ runs \in [Sessions -> Nat]
    OBVIOUS
  <2> QED
    BY <2>1, <2>2, <2>3, <2>4, <2>5, <2>6 DEF Typed
<1>2. Typed /\ Looks /\ [Next]_vars => Typed' /\ Looks'
  <2> SUFFICES ASSUME Typed, Looks, [Next]_vars PROVE Typed' /\ Looks'
    OBVIOUS
  <2> USE DispatchBounds
  \* Hub events are well typed.
  <2>0. ASSUME NEW type \in {"busy", "idle", "deleted"}, NEW s \in Sessions, Emit(type, s)
        PROVE  events' \in Seq(HubEvents)
    <3>1. [type |-> type, session |-> s] \in HubEvents
      BY DEF HubEvents
    <3>2. events \in Seq(HubEvents)
      BY DEF Typed
    <3>3. events' = events \/ events' = Append(events, [type |-> type, session |-> s])
      BY <2>0 DEF Emit
    <3> QED
      BY <3>1, <3>2, <3>3
  \* The control service.
  <2>1. ASSUME NEW e \in Ids, DispatchBegins(e) PROVE Typed' /\ Looks'
    BY <2>1 DEF DispatchBegins, Typed, Looks, TickIn, Stages, runtime, storage, opencode, inbox, history
  <2>2. ASSUME NEW e \in Ids, PromptLands(e) PROVE Typed' /\ Looks'
    <3>1. route[e].session \in Sessions
      BY DEF Typed
    <3>2. stage' \in [Ids -> Stages]
      BY <2>2 DEF PromptLands, Typed, Stages
    <3>3. turn' \in [Sessions -> {"idle", "running", "subagent", "gone"}]
          /\ events' \in Seq(HubEvents)
      BY <2>0, <2>2, <3>1 DEF PromptLands, Typed
    <3> QED
      BY <2>2, <3>2, <3>3 DEF PromptLands, Typed, Looks, runtime, storage, inbox, history
  <2>3. ASSUME NEW e \in Ids, Register(e) PROVE Typed' /\ Looks'
    <3>1. stage' \in [Ids -> Stages] /\ evicted' \subseteq Ids
      BY <2>3 DEF Register, Typed, Stages
    <3>2. entries' \subseteq Ids /\ message' \in [Ids -> Nat]
      BY <2>3 DEF Register, Kept, Typed
    <3>3. [register |-> e] \in Waiters \cup {NoWaiter} /\ writes \in Seq(Written)
      BY DEF Waiters, Typed
    <3>4. writes' \in Seq(Written)
      BY <2>3, <3>2, <3>3, PersistType DEF Register
    <3> QED
      BY <2>3, <3>1, <3>2, <3>4 DEF Register, Typed, Looks, opencode, inbox
  \* Ticks.
  <2>4. ASSUME NEW s \in Sessions, TickBegins(s) PROVE Typed' /\ Looks'
    <3>1. [phase |-> "activity", todo |-> {}, waiting |-> FALSE, run |-> 0, deleted |-> FALSE] \in Ticks
      BY DEF Ticks, Phases
    <3>2. tick' \in [Sessions -> {Asleep} \cup Ticks]
      BY <2>4, <3>1 DEF TickBegins, Typed
    <3>3. Looks'
      BY <2>4 DEF TickBegins, Looks, AtEntry, dispatch, Typed
    <3> QED
      BY <2>4, <3>2, <3>3 DEF TickBegins, Typed, storage, dispatch, opencode, inbox, history
  <2>5. ASSUME NEW s \in Sessions, TickEnds(s) PROVE tick' \in [Sessions -> {Asleep} \cup Ticks]
                                   /\ (UNCHANGED route => Looks')
    BY <2>5 DEF TickEnds, Typed, Looks
  <2>6. ASSUME NEW s \in Sessions, NEW phase \in Phases, tick[s] # Asleep, UNCHANGED route,
               tick[s].phase \notin AtEntry => phase \notin AtEntry,
               tick' = [tick EXCEPT ![s].phase = phase]
        PROVE  tick' \in [Sessions -> {Asleep} \cup Ticks] /\ Looks'
    BY <2>6, PhaseType DEF Looks
  <2>7. ASSUME NEW s \in Sessions, ReadActivity(s) PROVE Typed' /\ Looks'
    <3>1. tick[s] # Asleep /\ tick[s].phase \notin AtEntry /\ UNCHANGED route
      BY <2>7 DEF ReadActivity, TickIn, AtEntry, dispatch
    <3>2. \/ TickEnds(s)
          \/ tick' = [tick EXCEPT ![s].phase = "running"]
          \/ tick' = [tick EXCEPT ![s].phase = "records"]
      BY <2>7 DEF ReadActivity, RetryLater
    <3>3. tick' \in [Sessions -> {Asleep} \cup Ticks] /\ Looks'
      BY <2>5, <2>6, <3>1, <3>2 DEF Phases, AtEntry
    <3> QED
      BY <2>7, <3>3 DEF ReadActivity, Typed, storage, dispatch, opencode, inbox, history
  <2>8. ASSUME NEW s \in Sessions, HearsRunning(s) \/ ReadFails(s) PROVE Typed' /\ Looks'
    <3>1. TickEnds(s) /\ UNCHANGED route
      BY <2>8 DEF HearsRunning, ReadFails, RetryLater, dispatch
    <3> QED
      BY <2>5, <2>8, <3>1 DEF HearsRunning, ReadFails, Typed, storage, dispatch, opencode, inbox, history
  <2>9. ASSUME NEW s \in Sessions, ReadRecords(s) PROVE Typed' /\ Looks'
    <3> DEFINE step == [tick[s] EXCEPT !.phase = "loop", !.run = records[s], !.deleted = (turn[s] = "gone")]
    <3>1. tick[s] \in Ticks /\ tick[s] # Asleep /\ UNCHANGED route
      BY <2>9 DEF ReadRecords, TickIn, Typed, dispatch
    <3>2. tick' = [tick EXCEPT ![s] = step]
      BY <2>9, <3>1 DEF ReadRecords, Typed
    <3>3. records[s] \in Nat
      BY DEF Typed
    <3>4. step \in Ticks /\ step.phase = "loop" /\ step.todo = tick[s].todo
      BY <3>1, <3>3 DEF Ticks, Phases
    <3> HIDE DEF step
    <3>5. tick' \in [Sessions -> {Asleep} \cup Ticks] /\ Looks'
      BY <3>1, <3>2, <3>4 DEF Typed, Looks, AtEntry
    <3>6. forsaken' \subseteq Ids
      BY <2>9 DEF ReadRecords, GivenUp, PendingFor, Typed
    <3> QED
      BY <2>9, <3>5, <3>6 DEF ReadRecords, Typed, storage, dispatch, opencode, inbox
  <2>10. ASSUME NEW s \in Sessions, NEW step \in Ticks, NEW chain \in Seq(Written),
                entries' \subseteq Ids, NextEntry(s, step, chain), UNCHANGED route,
                \A e \in step.todo : route[e].session = s
         PROVE  Looks'
    BY <2>10, NextEntryType DEF Looks
  <2>11. ASSUME NEW s \in Sessions, LoopBegins(s) PROVE Typed' /\ Looks'
    <3> DEFINE pending == PendingFor(s, entries)
               ready == {e \in pending : tick[s].deleted \/ HasOutcome(e, tick[s].run)}
               step == [tick[s] EXCEPT !.todo = ready, !.waiting = (ready # pending)]
    <3>1. tick[s] \in Ticks /\ writes \in Seq(Written) /\ entries' \subseteq Ids
      BY <2>11 DEF LoopBegins, TickIn, Typed
    <3>2. ready \subseteq Ids /\ \A e \in ready : route[e].session = s
      BY DEF PendingFor, Typed
    <3>3. step \in Ticks /\ step.todo = ready
      BY <3>1, <3>2 DEF Ticks
    <3>4. NextEntry(s, step, writes) /\ UNCHANGED route
      BY <2>11 DEF LoopBegins, dispatch
    <3> HIDE DEF step, ready
    <3>5. Looks'
      BY <2>10, <3>1, <3>2, <3>3, <3>4
    <3>6. /\ tick' \in [Sessions -> {Asleep} \cup Ticks]
          /\ message' \in [Ids -> Nat] /\ minted' \in Nat
          /\ writes' \in Seq(Written)
      BY <3>1, <3>3, <3>4, NextEntryType
    <3> QED
      BY <2>11, <3>5, <3>6 DEF LoopBegins, Typed, dispatch, opencode, inbox
  <2>12. ASSUME NEW s \in Sessions, RequestArrives(s) PROVE Typed' /\ Looks'
    <3>1. RequestOf(s) \in Sent /\ tick[s] # Asleep /\ tick[s].phase \in AtEntry
      BY <2>12, RequestType DEF RequestArrives, TickIn, AtEntry
    <3>2. admitted' \in [Ids -> Seq(Sent)]
      BY <2>12, <3>1, AdmitType DEF RequestArrives
    <3>3. tick' \in [Sessions -> {Asleep} \cup Ticks] /\ Looks'
      BY <2>6, <2>12, <3>1 DEF RequestArrives, Phases, dispatch
    <3> QED
      BY <2>12, <3>2, <3>3 DEF RequestArrives, Typed, storage, dispatch, opencode, history
  <2>13. ASSUME NEW s \in Sessions, AnswerArrives(s) PROVE Typed' /\ Looks'
    <3>1. tick[s] # Asleep /\ tick[s].phase \in AtEntry
      BY <2>13 DEF AnswerArrives, TickIn, AtEntry
    <3>2. entries' \subseteq Ids /\ message' \in [Ids -> Nat] /\ writes \in Seq(Written)
      BY <2>13 DEF AnswerArrives, Typed
    <3>3. [tick |-> s] \in Waiters \cup {NoWaiter}
      BY DEF Waiters
    <3>4. writes' \in Seq(Written)
      BY <2>13, <3>2, <3>3, PersistType DEF AnswerArrives
    <3>5. tick' \in [Sessions -> {Asleep} \cup Ticks] /\ Looks'
      BY <2>6, <2>13, <3>1 DEF AnswerArrives, Phases, dispatch
    <3> QED
      BY <2>13, <3>2, <3>4, <3>5 DEF AnswerArrives, Typed, dispatch, opencode, inbox, history
  <2>14. ASSUME NEW s \in Sessions, RequestFails(s) PROVE Typed' /\ Looks'
    <3>1. RequestOf(s) \in Sent
      BY <2>14, RequestType DEF RequestFails
    <3>2. network' \subseteq Sent
      BY <2>14, <3>1 DEF RequestFails, Typed
    <3>3. TickEnds(s) /\ UNCHANGED route
      BY <2>14 DEF RequestFails, RetryLater, dispatch
    <3> QED
      BY <2>5, <2>14, <3>2, <3>3 DEF RequestFails, Typed, storage, dispatch, opencode, history
  <2>15. CASE LateArrives
    <3>1. PICK r \in network : Admit(r) /\ network' = network \ {r}
      BY <2>15 DEF LateArrives
    <3>2. r \in Sent
      BY DEF Typed
    <3>3. admitted' \in [Ids -> Seq(Sent)]
      BY <3>1, <3>2, AdmitType
    <3> QED
      BY <2>15, <3>1, <3>3 DEF LateArrives, Typed, Looks, runtime, storage, dispatch, opencode, history
  \* The write chain.
  <2>16. CASE WriteEnds
    <3> DEFINE chain == Tail(writes)
               waiter == Head(writes).waiter
    <3>1. Head(writes) \in Written /\ chain \in Seq(Written) /\ entries' \subseteq Ids
      BY <2>16 DEF WriteEnds, Typed
    <3>2. disk' \in Files
      BY <2>16, <3>1 DEF WriteEnds, Written, Typed
    <3>3. UNCHANGED <<server, entries, route, admitted, network, turn, runs, records, events, evicted, forsaken>>
      BY <2>16 DEF WriteEnds, opencode, inbox
    <3>4. Resume(waiter)
      BY <2>16 DEF WriteEnds
    <3> HIDE DEF chain, waiter
    <3>5. CASE writes' = chain /\ UNCHANGED <<tick, message, minted>> /\ stage' \in [Ids -> Stages]
      BY <3>1, <3>2, <3>3, <3>5 DEF Typed, Looks
    <3>6. ASSUME NEW s \in Sessions, NEW step \in Ticks, step.todo \subseteq tick[s].todo,
                 tick[s] # Asleep, NextEntry(s, step, chain), UNCHANGED stage
          PROVE  Typed' /\ Looks'
      <4>1. Looks'
        BY <2>10, <3>1, <3>3, <3>6 DEF Looks
      <4>2. /\ tick' \in [Sessions -> {Asleep} \cup Ticks]
            /\ message' \in [Ids -> Nat] /\ minted' \in Nat
            /\ writes' \in Seq(Written)
        BY <3>1, <3>6, NextEntryType
      <4> QED
        BY <3>2, <3>3, <3>6, <4>1, <4>2 DEF Typed
    <3>7. ASSUME NEW s \in Sessions, TickIn(s, "minting"), NextEntry(s, tick[s], chain), UNCHANGED stage
          PROVE  Typed' /\ Looks'
      BY <3>6, <3>7 DEF TickIn, Typed
    <3>8. ASSUME NEW s \in Sessions, TickIn(s, "removing"), UNCHANGED stage,
                 NextEntry(s, [tick[s] EXCEPT !.todo = @ \ {Oldest(@)}], chain)
          PROVE  Typed' /\ Looks'
      <4>1. tick[s] \in Ticks /\ tick[s] # Asleep
        BY <3>8 DEF TickIn, Typed
      <4> DEFINE step == [tick[s] EXCEPT !.todo = @ \ {Oldest(@)}]
      <4>2. step \in Ticks /\ step.todo \subseteq tick[s].todo
        BY <4>1 DEF Ticks
      <4> QED
        BY <3>6, <3>8, <4>1, <4>2
    <3>9. ASSUME NEW e \in Ids, stage' = [stage EXCEPT ![e] = "registered"]
          PROVE  stage' \in [Ids -> Stages]
      BY <3>9 DEF Typed, Stages
    <3> QED
      BY <3>4, <3>5, <3>7, <3>8, <3>9 DEF Resume, chain, Typed
  \* The hub.
  <2>17. CASE DeliverEvent
    <3> DEFINE s == Head(events).session
               type == Head(events).type
    <3>1. events' = Tail(events) /\ ProcessPayload(type, s)
      BY <2>17 DEF DeliverEvent
    <3>2. events' \in Seq(HubEvents)
      BY <2>17, <3>1 DEF DeliverEvent, Typed
    <3>3. UNCHANGED message /\ entries' \subseteq entries
      BY <3>1 DEF ProcessPayload
    <3>4. entries' \subseteq Ids /\ message' \in [Ids -> Nat] /\ writes \in Seq(Written)
          /\ NoWaiter \in Waiters \cup {NoWaiter}
      BY <3>3 DEF Typed
    <3>5. Persist(writes, NoWaiter) \/ UNCHANGED writes
      BY <3>1 DEF ProcessPayload
    <3>6. writes' \in Seq(Written)
      BY <3>4, <3>5, PersistType
    <3> QED
      BY <2>17, <3>2, <3>4, <3>6 DEF DeliverEvent, Typed, Looks, dispatch, inbox, history
  <2>18. CASE Reconnect
    BY <2>18 DEF Reconnect, Typed, Looks, storage, dispatch, inbox, history
  \* The process.
  <2>19. CASE Crash
    <3>1. {RequestOf(s) : s \in {c \in Sessions : TickIn(c, "request") /\ Happens("late")}} \subseteq Sent
      BY RequestType
    <3>2. network' \subseteq Sent
      BY <2>19, <3>1 DEF Crash, Typed
    <3>3. stage' \in [Ids -> Stages] /\ message' \in [Ids -> Nat]
      BY <2>19 DEF Crash, Typed, Stages, NoMessage
    <3>4. tick' \in [Sessions -> {Asleep} \cup Ticks] /\ Looks'
      BY <2>19 DEF Crash, Looks
    <3> QED
      BY <2>19, <3>2, <3>3, <3>4 DEF Crash, Typed
  <2>20. CASE Start
    BY <2>20 DEF Start, Typed, Looks, storage, dispatch, opencode, inbox, history
  <2>21. CASE Load
    BY <2>21 DEF Load, Typed, Files, Looks, storage, dispatch, opencode, inbox, history
  \* OpenCode.
  <2>22. ASSUME NEW s \in Sessions, RunStarts(s) \/ RunEnds(s) \/ RecordLands(s) \/ SessionDeleted(s)
         PROVE  Typed' /\ Looks'
    <3>1. UNCHANGED <<runtime, storage, dispatch, inbox, history>>
      BY <2>22 DEF RunStarts, RunEnds, RecordLands, SessionDeleted, Outside
    <3>2. events' \in Seq(HubEvents)
      BY <2>0, <2>22 DEF RunStarts, RunEnds, RecordLands, SessionDeleted, Typed
    <3>3. turn' \in [Sessions -> {"idle", "running", "subagent", "gone"}]
      BY <2>22 DEF RunStarts, RunEnds, RecordLands, SessionDeleted, Typed
    <3>4. runs' \in [Sessions -> Nat] /\ records' \in [Sessions -> Nat]
      <4>1. runs \in [Sessions -> Nat] /\ records \in [Sessions -> Nat]
        BY DEF Typed
      <4>2. CASE RunEnds(s)
        <5>1. runs' = [runs EXCEPT ![s] = runs[s] + 1]
          BY <4>2 DEF RunEnds
        <5>2. runs' \in [Sessions -> Nat]
          BY <4>1, <5>1
        <5> QED
          BY <4>1, <4>2, <5>2 DEF RunEnds
      <4>3. CASE RecordLands(s)
        BY <4>1, <4>3 DEF RecordLands
      <4>4. CASE RunStarts(s) \/ SessionDeleted(s)
        BY <4>1, <4>4 DEF RunStarts, SessionDeleted
      <4> QED
        BY <2>22, <4>2, <4>3, <4>4
    <3> QED
      BY <3>1, <3>2, <3>3, <3>4 DEF Typed, Looks, runtime, storage, dispatch, inbox, history
  <2>23. CASE UNCHANGED vars
    BY <2>23 DEF vars, Typed, Looks, runtime, storage, dispatch, opencode, inbox, history
  <2> QED
    BY <2>1, <2>2, <2>3, <2>4, <2>7, <2>8, <2>9, <2>11, <2>12, <2>13, <2>14, <2>15, <2>16, <2>17,
       <2>18, <2>19, <2>20, <2>21, <2>22, <2>23 DEF Next, Control, Loop, TickSteps, Hub, Process, OpenCode
<1> QED
  BY <1>1, <1>2, PTL DEF Spec

-----------------------------------------------------------------------------
(* Kinds of steps *)

\* What most steps leave alone: what is pending, sent or written.
Calm ==
  /\ UNCHANGED <<server, entries, message, writes, disk, route, admitted>>
  /\ \A s \in Sessions :
       \/ tick'[s] = tick[s]
       \/ /\ tick[s] # Asleep \/ entries # {}
          /\ ~TickIn(s, "minting") /\ ~TickIn(s, "removing")
          /\ tick'[s] # Asleep =>
               /\ tick'[s].phase \notin AtEntry
               /\ \A e \in tick'[s].todo : tick[s] # Asleep /\ e \in tick[s].todo
  /\ \A e \in Ids : \/ stage'[e] = stage[e]
                    \/ server = "up" /\ stage[e] = "new" /\ stage'[e] = "baseline"
                    \/ stage[e] = "baseline" /\ stage'[e] = "prompted"
  /\ \A r \in network' : r \in network \/ \E s \in Sessions : TickIn(s, "request") /\ r = RequestOf(s)

\* Results of a deleted parent are forgotten.
Forgets ==
  /\ entries' \subseteq entries /\ entries' # entries
  /\ \A e \in entries \ entries' :
       \E n \in DOMAIN events : events[n].type = "deleted" /\ events[n].session = route[e].parent
  /\ Persist(writes, NoWaiter)
  /\ UNCHANGED <<server, message, tick, disk, stage, route, admitted, network>>

\* The loop of a tick goes on, with the writes it finds or those after the one
\* that ended.
Goes(s, step, chain) ==
  /\ step \in Ticks /\ tick[s] # Asleep /\ chain \in Seq(Written)
  /\ NextEntry(s, step, chain)
  /\ UNCHANGED <<server, entries, stage, route, admitted, network>>

\* The loop of a tick mints an id, sends a request or ends.
LEMMA NextEntryCases ==
  ASSUME Typed, NEW s \in Sessions, NEW step \in Ticks, NEW chain \in Seq(Written), NextEntry(s, step, chain)
  PROVE  /\ \A q \in Sessions : q # s => tick'[q] = tick[q]
         /\ \/ /\ step.todo # {} /\ tick'[s] # Asleep
               /\ tick'[s].phase = "minting" /\ tick'[s].todo = step.todo
               /\ message[Oldest(step.todo)] = NoMessage
               /\ message' = [message EXCEPT ![Oldest(step.todo)] = minted + 1]
               /\ Persist(chain, [tick |-> s])
            \/ /\ step.todo # {} /\ tick'[s] # Asleep
               /\ tick'[s].phase = "request" /\ tick'[s].todo = step.todo
               /\ message[Oldest(step.todo)] # NoMessage
               /\ writes' = chain /\ UNCHANGED message
            \/ tick'[s] = Asleep /\ writes' = chain /\ UNCHANGED message
<1>1. CASE step.todo # {} /\ message[Oldest(step.todo)] = NoMessage
  <2>1. /\ message' = [message EXCEPT ![Oldest(step.todo)] = minted + 1]
        /\ tick' = [tick EXCEPT ![s] = [step EXCEPT !.phase = "minting"]]
        /\ Persist(chain, [tick |-> s])
    BY <1>1 DEF NextEntry
  <2>2. tick'[s] = [step EXCEPT !.phase = "minting"] /\ \A q \in Sessions : q # s => tick'[q] = tick[q]
    BY <2>1 DEF Typed
  <2>3. tick'[s].phase = "minting" /\ tick'[s].todo = step.todo
    BY <2>2 DEF Ticks
  <2> QED
    BY <1>1, <2>1, <2>2, <2>3 DEF Asleep
<1>2. CASE step.todo # {} /\ message[Oldest(step.todo)] # NoMessage
  <2>1. /\ tick' = [tick EXCEPT ![s] = [step EXCEPT !.phase = "request"]]
        /\ writes' = chain /\ UNCHANGED message
    BY <1>2 DEF NextEntry
  <2>2. tick'[s] = [step EXCEPT !.phase = "request"] /\ \A q \in Sessions : q # s => tick'[q] = tick[q]
    BY <2>1 DEF Typed
  <2>3. tick'[s].phase = "request" /\ tick'[s].todo = step.todo
    BY <2>2 DEF Ticks
  <2> QED
    BY <1>2, <2>1, <2>2, <2>3 DEF Asleep
<1>3. CASE step.todo = {}
  BY <1>3 DEF NextEntry, LoopEnds, TickEnds, Typed
<1> QED
  BY <1>1, <1>2, <1>3

\* The loop of a tick begins with entries that are pending.
LEMMA LoopBeginsCases ==
  ASSUME Typed, Looks, NEW s \in Sessions, LoopBegins(s)
  PROVE  /\ TickIn(s, "loop") /\ UNCHANGED disk
         /\ \E step \in Ticks :
              /\ Goes(s, step, writes)
              /\ \A e \in step.todo : e \in entries /\ route[e].session = s
<1> DEFINE pending == PendingFor(s, entries)
           ready == {e \in pending : tick[s].deleted \/ HasOutcome(e, tick[s].run)}
           step == [tick[s] EXCEPT !.todo = ready, !.waiting = (ready # pending)]
<1>1. tick[s] \in Ticks /\ tick[s] # Asleep /\ writes \in Seq(Written)
  BY DEF LoopBegins, TickIn, Typed
<1>2. ready \subseteq Ids /\ \A e \in ready : e \in entries /\ route[e].session = s
  BY DEF PendingFor, Typed
<1>3. step \in Ticks /\ step.todo = ready
  BY <1>1, <1>2 DEF Ticks
<1>4. NextEntry(s, step, writes) /\ UNCHANGED <<server, entries, stage, route, admitted, network, disk>>
  BY DEF LoopBegins, dispatch, inbox
<1> HIDE DEF step, ready
<1>5. Goes(s, step, writes)
  BY <1>1, <1>3, <1>4 DEF Goes
<1> QED
  BY <1>2, <1>3, <1>4, <1>5 DEF LoopBegins

\* A write that ends answers a registration, or lets a tick go on, or nobody.
LEMMA WriteEndsCases ==
  ASSUME Typed, Looks, WriteEnds
  PROVE  /\ writes # <<>> /\ UNCHANGED <<server, entries, route, admitted, network>>
         /\ disk' = Head(writes).file \/ (Happens("writeFails") /\ UNCHANGED disk)
         /\ \/ /\ writes' = Tail(writes) /\ UNCHANGED <<tick, message>>
               /\ Head(writes).waiter = NoWaiter /\ UNCHANGED stage
            \/ /\ writes' = Tail(writes) /\ UNCHANGED <<tick, message>>
               /\ \E e \in Ids : /\ Head(writes).waiter = [register |-> e]
                                 /\ stage' = [stage EXCEPT ![e] = "registered"]
            \/ \E s \in Sessions : \E step \in Ticks :
                 /\ Head(writes).waiter = [tick |-> s]
                 /\ Goes(s, step, Tail(writes))
                 /\ step.todo \subseteq tick[s].todo
<1>1. writes # <<>> /\ UNCHANGED <<server, entries, route, admitted, network>>
  BY DEF WriteEnds, inbox
<1>2. disk' = Head(writes).file \/ (Happens("writeFails") /\ UNCHANGED disk)
  BY DEF WriteEnds
<1>3. Tail(writes) \in Seq(Written)
  BY <1>1 DEF Typed
<1>4. Resume(Head(writes).waiter)
  BY DEF WriteEnds
<1>5. ASSUME NEW s \in Sessions, Head(writes).waiter = [tick |-> s], UNCHANGED stage,
             TickIn(s, "minting") /\ NextEntry(s, tick[s], Tail(writes))
      PROVE  \E step \in Ticks : Goes(s, step, Tail(writes)) /\ step.todo \subseteq tick[s].todo
  <2>1. tick[s] \in Ticks
    BY <1>5 DEF TickIn, Typed
  <2> QED
    BY <1>1, <1>3, <1>5, <2>1 DEF Goes, TickIn
<1>6. ASSUME NEW s \in Sessions, Head(writes).waiter = [tick |-> s], UNCHANGED stage,
             TickIn(s, "removing") /\ NextEntry(s, [tick[s] EXCEPT !.todo = @ \ {Oldest(@)}], Tail(writes))
      PROVE  \E step \in Ticks : Goes(s, step, Tail(writes)) /\ step.todo \subseteq tick[s].todo
  <2> DEFINE step == [tick[s] EXCEPT !.todo = @ \ {Oldest(@)}]
  <2>1. tick[s] \in Ticks
    BY <1>6 DEF TickIn, Typed
  <2>2. step \in Ticks /\ step.todo \subseteq tick[s].todo
    BY <2>1 DEF Ticks
  <2>3. Goes(s, step, Tail(writes))
    BY <1>1, <1>3, <1>6, <2>2 DEF Goes, TickIn
  <2> QED
    BY <2>2, <2>3
<1> QED
  BY <1>1, <1>2, <1>4, <1>5, <1>6 DEF Resume

\* Every step is calm or one of a few.
LEMMA StepKinds ==
  ASSUME Typed, Looks, [Next]_vars
  PROVE  \/ Calm \/ Forgets \/ WriteEnds \/ LateArrives \/ Crash \/ Start \/ Load
         \/ \E e \in Ids : Register(e)
         \/ \E s \in Sessions : LoopBegins(s) \/ RequestArrives(s) \/ AnswerArrives(s)
<1>1. ASSUME NEW e \in Ids, DispatchBegins(e) \/ PromptLands(e) PROVE Calm
  <2>1. UNCHANGED <<server, entries, message, writes, disk, route, admitted, network, tick>>
    BY <1>1 DEF DispatchBegins, PromptLands, runtime, storage, inbox
  <2>2. \A f \in Ids : \/ stage'[f] = stage[f]
                       \/ server = "up" /\ stage[f] = "new" /\ stage'[f] = "baseline"
                       \/ stage[f] = "baseline" /\ stage'[f] = "prompted"
    BY <1>1 DEF DispatchBegins, PromptLands, Typed
  <2> QED
    BY <2>1, <2>2 DEF Calm
\* A tick that moves on without an entry, or ends.
<1>2. ASSUME NEW s \in Sessions, UNCHANGED <<server, entries, message, writes, disk, route, admitted, stage>>,
             \A r \in network' : r \in network \/ (TickIn(s, "request") /\ r = RequestOf(s)),
             tick[s] # Asleep \/ entries # {}, ~TickIn(s, "minting"), ~TickIn(s, "removing"),
             \A q \in Sessions : q # s => tick'[q] = tick[q],
             tick'[s] # Asleep =>
               tick'[s].phase \notin AtEntry
               /\ \A e \in tick'[s].todo : tick[s] # Asleep /\ e \in tick[s].todo
      PROVE  Calm
  <2>1. \A q \in Sessions :
          \/ tick'[q] = tick[q]
          \/ /\ tick[q] # Asleep \/ entries # {}
             /\ ~TickIn(q, "minting") /\ ~TickIn(q, "removing")
             /\ tick'[q] # Asleep =>
                  /\ tick'[q].phase \notin AtEntry
                  /\ \A e \in tick'[q].todo : tick[q] # Asleep /\ e \in tick[q].todo
    BY <1>2
  <2>2. UNCHANGED <<server, entries, message, writes, disk, route, admitted, stage>>
    BY <1>2
  <2>3. \A r \in network' : r \in network \/ \E q \in Sessions : TickIn(q, "request") /\ r = RequestOf(q)
    BY <1>2
  <2> QED
    BY <2>1, <2>2, <2>3 DEF Calm
<1>3. ASSUME NEW s \in Sessions, TickBegins(s) PROVE Calm
  <2>1. UNCHANGED <<server, entries, message, writes, disk, route, admitted, stage, network>>
    BY <1>3 DEF TickBegins, storage, dispatch, inbox
  <2>2. CASE PendingFor(s, entries) = {}
    BY <1>3, <2>1, <2>2 DEF TickBegins, Calm
  <2>3. CASE PendingFor(s, entries) # {}
    <3>1. /\ tick'[s] = [phase |-> "activity", todo |-> {}, waiting |-> FALSE, run |-> 0, deleted |-> FALSE]
          /\ \A q \in Sessions : q # s => tick'[q] = tick[q]
      BY <1>3, <2>3 DEF TickBegins, Typed
    <3>2. entries # {} /\ tick[s] = Asleep
      BY <1>3, <2>3 DEF PendingFor, TickBegins
    <3>3. tick'[s].phase \notin AtEntry /\ tick'[s].todo = {}
      BY <3>1 DEF AtEntry
    <3> QED
      BY <1>2, <2>1, <3>1, <3>2, <3>3 DEF TickIn
  <2> QED
    BY <2>2, <2>3
<1>4. ASSUME NEW s \in Sessions, ReadActivity(s) \/ HearsRunning(s) \/ ReadFails(s) \/ ReadRecords(s)
      PROVE  Calm
  <2>1. UNCHANGED <<server, entries, message, writes, disk, route, admitted, stage, network>>
    BY <1>4 DEF ReadActivity, HearsRunning, ReadFails, ReadRecords, storage, dispatch, inbox
  <2>2. tick[s] # Asleep /\ ~TickIn(s, "minting") /\ ~TickIn(s, "removing")
    BY <1>4 DEF ReadActivity, HearsRunning, ReadFails, ReadRecords, TickIn
  <2>3. \/ TickEnds(s)
        \/ \E phase \in {"running", "records"} : tick' = [tick EXCEPT ![s].phase = phase]
        \/ tick' = [tick EXCEPT ![s].phase = "loop", ![s].run = records[s], ![s].deleted = (turn[s] = "gone")]
    BY <1>4 DEF ReadActivity, HearsRunning, ReadFails, ReadRecords, RetryLater
  <2>4. tick[s] \in Ticks
    BY <2>2 DEF Typed
  <2>5. CASE TickEnds(s)
    BY <1>2, <2>1, <2>2, <2>5 DEF TickEnds, Typed
  <2>6. ASSUME NEW phase \in {"running", "records"}, tick' = [tick EXCEPT ![s].phase = phase] PROVE Calm
    <3>1. tick'[s].phase = phase /\ tick'[s].todo = tick[s].todo /\ \A q \in Sessions : q # s => tick'[q] = tick[q]
      BY <2>2, <2>6, PhaseType DEF Phases
    <3> QED
      BY <1>2, <2>1, <2>2, <3>1 DEF AtEntry
  <2>7. CASE tick' = [tick EXCEPT ![s].phase = "loop", ![s].run = records[s], ![s].deleted = (turn[s] = "gone")]
    <3>1. tick'[s] = [tick[s] EXCEPT !.phase = "loop", !.run = records[s], !.deleted = (turn[s] = "gone")]
          /\ \A q \in Sessions : q # s => tick'[q] = tick[q]
      BY <2>7 DEF Typed
    <3>2. tick'[s].phase = "loop" /\ tick'[s].todo = tick[s].todo
      BY <2>4, <3>1 DEF Ticks
    <3> QED
      BY <1>2, <2>1, <2>2, <3>1, <3>2 DEF AtEntry
  <2> QED
    BY <2>3, <2>5, <2>6, <2>7
<1>5. ASSUME NEW s \in Sessions, RequestFails(s) PROVE Calm
  <2>1. UNCHANGED <<server, entries, message, writes, disk, route, admitted, stage>>
    BY <1>5 DEF RequestFails, storage, dispatch
  <2>2. tick[s] # Asleep /\ ~TickIn(s, "minting") /\ ~TickIn(s, "removing")
    BY <1>5 DEF RequestFails, TickIn
  <2>3. tick'[s] = Asleep /\ \A q \in Sessions : q # s => tick'[q] = tick[q]
    BY <1>5 DEF RequestFails, RetryLater, TickEnds, Typed
  <2>4. \A r \in network' : r \in network \/ (TickIn(s, "request") /\ r = RequestOf(s))
    BY <1>5 DEF RequestFails
  <2> QED
    BY <1>2, <2>1, <2>2, <2>3, <2>4
<1>6. CASE DeliverEvent
  <2> DEFINE s == Head(events).session
             type == Head(events).type
  <2>1. UNCHANGED <<server, message, tick, disk, stage, route, admitted, network>>
    BY <1>6 DEF DeliverEvent, ProcessPayload, dispatch, inbox
  <2>2. CASE entries' # entries
    <3>1. /\ entries' \subseteq entries /\ Persist(writes, NoWaiter)
          /\ type = "deleted" /\ \A e \in entries \ entries' : route[e].parent = s
      BY <1>6, <2>2 DEF DeliverEvent, ProcessPayload
    <3>2. 1 \in DOMAIN events /\ events[1].type = type /\ events[1].session = s
      BY <1>6 DEF DeliverEvent, Typed
    <3> QED
      BY <2>1, <2>2, <3>1, <3>2 DEF Forgets
  <2>3. CASE entries' = entries
    BY <1>6, <2>1, <2>3 DEF DeliverEvent, ProcessPayload, Calm
  <2> QED
    BY <2>2, <2>3
<1>7. CASE Reconnect
  BY <1>7 DEF Reconnect, Calm, storage, dispatch, inbox
<1>8. ASSUME NEW s \in Sessions, RunStarts(s) \/ RunEnds(s) \/ RecordLands(s) \/ SessionDeleted(s) PROVE Calm
  <2>1. UNCHANGED <<runtime, storage, dispatch, inbox>>
    BY <1>8 DEF RunStarts, RunEnds, RecordLands, SessionDeleted, Outside
  <2> QED
    BY <2>1 DEF Calm, runtime, storage, dispatch, inbox
<1>9. CASE UNCHANGED vars
  BY <1>9 DEF Calm, vars, runtime, storage, dispatch, inbox
<1> QED
  BY <1>1, <1>3, <1>4, <1>5, <1>6, <1>7, <1>8, <1>9
     DEF Next, Control, Loop, TickSteps, Hub, Process, OpenCode

-----------------------------------------------------------------------------
(* The write chain *)

\* Chain holds the writes but for the first d.
After(chain, d) ==
  /\ chain \in Seq(Written) /\ d \in {0, 1}
  /\ \A n \in DOMAIN chain : n \in Nat \ {0} /\ n + d \in DOMAIN writes /\ chain[n] = writes[n + d]
  /\ \A n \in DOMAIN writes : n \in Nat \ {0} /\ (n > d => n - d \in DOMAIN chain /\ chain[n - d] = writes[n])

\* What is left of the chain when a write ends, or when none does.
LEMMA ChainAfter ==
  ASSUME Typed
  PROVE  /\ After(writes, 0)
         /\ writes # <<>> => /\ After(Tail(writes), 1)
                             /\ Head(writes) = writes[1] /\ 1 \in DOMAIN writes
<1>1. writes \in Seq(Written)
  BY DEF Typed
<1>2. After(writes, 0)
  BY <1>1 DEF After
<1>3. ASSUME writes # <<>> PROVE After(Tail(writes), 1)
  <2>1. Tail(writes) \in Seq(Written)
    BY <1>1, <1>3
  <2>2. \A n \in DOMAIN Tail(writes) :
          n \in Nat \ {0} /\ n + 1 \in DOMAIN writes /\ Tail(writes)[n] = writes[n + 1]
    BY <1>1, <1>3
  <2>3. \A n \in DOMAIN writes :
          n \in Nat \ {0} /\ (n > 1 => n - 1 \in DOMAIN Tail(writes) /\ Tail(writes)[n - 1] = writes[n])
    BY <1>1, <1>3
  <2> QED
    BY <2>1, <2>2, <2>3 DEF After
<1>4. writes # <<>> => Head(writes) = writes[1] /\ 1 \in DOMAIN writes
  BY <1>1
<1> QED
  BY <1>2, <1>3, <1>4

\* A file that is written comes last, with what is pending and its ids.
LEMMA PersistLast ==
  ASSUME NEW chain \in Seq(Written), NEW waiter, entries' \subseteq Ids, Persist(chain, waiter)
  PROVE  /\ Len(chain) + 1 \in DOMAIN writes'
         /\ writes'[Len(chain) + 1].waiter = waiter
         /\ writes'[Len(chain) + 1].file.entries = entries'
         /\ \A e \in entries' : writes'[Len(chain) + 1].file.message[e] = message'[e]
         /\ \A n \in DOMAIN chain : n \in DOMAIN writes' /\ writes'[n] = chain[n] /\ n < Len(chain) + 1
         /\ \A n \in DOMAIN writes' : n \in Nat /\ (n = Len(chain) + 1 \/ n \in DOMAIN chain)
<1> DEFINE w == [file |-> Saved(entries', message'), waiter |-> waiter]
<1>1. writes' = Append(chain, w)
  BY DEF Persist
<1>2. w.waiter = waiter /\ w.file.entries = entries' /\ \A e \in entries' : w.file.message[e] = message'[e]
  BY DEF Saved
<1> HIDE DEF w
<1>3. /\ Len(chain) + 1 \in DOMAIN writes' /\ writes'[Len(chain) + 1] = w
      /\ \A n \in DOMAIN chain : n \in DOMAIN writes' /\ writes'[n] = chain[n] /\ n < Len(chain) + 1
      /\ \A n \in DOMAIN writes' : n \in Nat /\ (n = Len(chain) + 1 \/ n \in DOMAIN chain)
  BY <1>1
<1> QED
  BY <1>2, <1>3

-----------------------------------------------------------------------------
(* The server that is not up, and what is registered *)

\* A result that is registered stays so.
LEMMA StagesLast ==
  ASSUME Typed, Looks, Stopped, [Next]_vars
  PROVE  \A e \in Ids : stage[e] \in LateStages => stage'[e] \in LateStages
<1>1. CASE Calm
  BY <1>1 DEF Calm, LateStages, Announced
<1>2. CASE WriteEnds
  <2>1. CASE UNCHANGED stage
    BY <2>1
  <2>2. ASSUME NEW e \in Ids, stage' = [stage EXCEPT ![e] = "registered"]
        PROVE  \A f \in Ids : stage[f] \in LateStages => stage'[f] \in LateStages
    BY <2>2 DEF Typed, LateStages, Announced
  <2> QED
    BY <1>2, <2>1, <2>2, WriteEndsCases DEF Goes
<1>3. ASSUME NEW e \in Ids, Register(e)
      PROVE  \A f \in Ids : stage[f] \in LateStages => stage'[f] \in LateStages
  BY <1>3 DEF Register, Typed, LateStages, Announced
<1>4. CASE Crash
  BY <1>4 DEF Crash, LateStages, Announced
<1>5. CASE Forgets \/ LateArrives \/ Start \/ Load
  BY <1>5 DEF Forgets, LateArrives, Start, Load, dispatch
<1>6. ASSUME NEW s \in Sessions, LoopBegins(s) \/ RequestArrives(s) \/ AnswerArrives(s)
      PROVE  UNCHANGED stage
  BY <1>6 DEF LoopBegins, RequestArrives, AnswerArrives, dispatch
<1> QED
  BY <1>1, <1>2, <1>3, <1>4, <1>5, <1>6, StepKinds

\* A server that is not up stays empty.
LEMMA StoppedStep ==
  ASSUME Typed, Looks, Stopped, [Next]_vars
  PROVE  Stopped'
<1>1. CASE Calm
  <2>1. UNCHANGED <<server, entries, writes>>
    BY <1>1 DEF Calm
  <2>2. ASSUME server # "up" PROVE \A s \in Sessions : tick'[s] = Asleep
    BY <1>1, <2>2 DEF Calm, Stopped
  <2>3. ASSUME server # "up" PROVE \A e \in Ids : stage'[e] \notin {"baseline", "prompted", "registering"}
    BY <1>1, <2>3 DEF Calm, Stopped
  <2> QED
    BY <2>1, <2>2, <2>3 DEF Stopped
<1>2. CASE WriteEnds
  BY <1>2, WriteEndsCases DEF Stopped
<1>3. ASSUME NEW e \in Ids, Register(e) PROVE Stopped'
  BY <1>3 DEF Register, Stopped
<1>4. CASE Crash
  BY <1>4 DEF Crash, Stopped
<1>5. CASE Forgets
  BY <1>5 DEF Forgets, Stopped
<1>6. CASE LateArrives \/ Start
  BY <1>6 DEF LateArrives, Start, Stopped, runtime, storage, dispatch
<1>7. CASE Load
  BY <1>7 DEF Load, Stopped
<1>8. ASSUME NEW s \in Sessions, LoopBegins(s) \/ RequestArrives(s) \/ AnswerArrives(s) PROVE Stopped'
  BY <1>8 DEF LoopBegins, RequestArrives, AnswerArrives, TickIn, Stopped
<1> QED
  BY <1>1, <1>2, <1>3, <1>4, <1>5, <1>6, <1>7, <1>8, StepKinds

\* What is known has been registered.
LEMMA RegisteredStep ==
  ASSUME Typed, Looks, Stopped, Registered, [Next]_vars
  PROVE  Registered'
<1> DEFINE Late(items) == \A e \in items : stage'[e] \in LateStages
           Goal == /\ Late(entries') /\ Late(disk'.entries)
                   /\ \A n \in DOMAIN writes' : Late(writes'[n].file.entries)
                   /\ \A s \in Sessions : tick'[s] # Asleep => Late(tick'[s].todo)
<1>1. /\ Late(entries) /\ Late(disk.entries)
      /\ \A n \in DOMAIN writes : Late(writes[n].file.entries)
      /\ \A s \in Sessions : tick[s] # Asleep => Late(tick[s].todo)
  <2>1. entries \subseteq Ids /\ disk.entries \subseteq Ids
    BY DEF Typed, Files
  <2>2. \A n \in DOMAIN writes : writes[n].file.entries \subseteq Ids
    <3>1. \A n \in DOMAIN writes : writes[n] \in Written
      BY DEF Typed
    <3> QED
      BY <3>1 DEF Written, Files
  <2>3. \A s \in Sessions : tick[s] # Asleep => tick[s].todo \subseteq Ids
    BY DEF Typed, Ticks
  <2> QED
    BY <2>1, <2>2, <2>3, StagesLast DEF Registered, LateStages
<1>2. SUFFICES Goal
  BY DEF Registered, LateStages
<1> HIDE DEF Late
<1>3. CASE Calm
  <2>1. \A s \in Sessions : tick'[s] # Asleep => Late(tick'[s].todo)
    BY <1>1, <1>3 DEF Calm, Late
  <2> QED
    BY <1>1, <1>3, <2>1 DEF Calm
\* A file that is written.
<1>4. ASSUME NEW chain, NEW d, After(chain, d), NEW waiter, Persist(chain, waiter), entries' \subseteq Ids, Late(entries')
      PROVE  \A n \in DOMAIN writes' : Late(writes'[n].file.entries)
  BY <1>1, <1>4, PersistLast DEF After
\* A chain that is left.
<1>5. ASSUME NEW chain, NEW d, After(chain, d), writes' = chain
      PROVE  \A n \in DOMAIN writes' : Late(writes'[n].file.entries)
  BY <1>1, <1>5 DEF After
<1>6. ASSUME NEW s \in Sessions, NEW step, NEW chain, NEW d, After(chain, d), Goes(s, step, chain), Late(step.todo)
      PROVE  /\ Late(entries') /\ \A n \in DOMAIN writes' : Late(writes'[n].file.entries)
             /\ \A q \in Sessions : tick'[q] # Asleep => Late(tick'[q].todo)
  <2>1. step \in Ticks /\ chain \in Seq(Written) /\ NextEntry(s, step, chain) /\ entries' = entries
        /\ entries' \subseteq Ids
    BY <1>6 DEF Goes, Typed
  <2>2. \A q \in Sessions : tick'[q] # Asleep => Late(tick'[q].todo)
    BY <1>1, <1>6, <2>1, NextEntryCases
  <2>3. Persist(chain, [tick |-> s]) \/ writes' = chain
    BY <2>1, NextEntryCases
  <2>4. Late(entries')
    BY <1>1, <2>1
  <2>5. \A n \in DOMAIN writes' : Late(writes'[n].file.entries)
    BY <1>4, <1>5, <1>6, <2>1, <2>3, <2>4
  <2> QED
    BY <2>2, <2>4, <2>5
<1>7. CASE WriteEnds
  <2>1. /\ writes # <<>> /\ UNCHANGED entries
        /\ disk' = Head(writes).file \/ UNCHANGED disk
    BY <1>7, WriteEndsCases
  <2>2. Late(disk'.entries)
    BY <1>1, <2>1, ChainAfter
  <2>3. CASE writes' = Tail(writes) /\ UNCHANGED tick
    BY <1>1, <1>5, <2>1, <2>2, <2>3, ChainAfter
  <2>4. ASSUME NEW s \in Sessions, NEW step \in Ticks, Goes(s, step, Tail(writes)), step.todo \subseteq tick[s].todo
        PROVE  /\ Late(entries') /\ \A n \in DOMAIN writes' : Late(writes'[n].file.entries)
               /\ \A q \in Sessions : tick'[q] # Asleep => Late(tick'[q].todo)
    <3>1. tick[s] # Asleep
      BY <2>4 DEF Goes
    <3>2. Late(step.todo)
      BY <1>1, <2>4, <3>1 DEF Late
    <3> QED
      BY <1>6, <2>1, <2>4, <3>2, ChainAfter
  <2> QED
    BY <1>7, <2>2, <2>3, <2>4, WriteEndsCases
<1>8. ASSUME NEW e \in Ids, Register(e) PROVE Goal
  <2>1. entries' \subseteq entries \cup {e} /\ stage'[e] = "registering" /\ UNCHANGED <<disk, tick>>
        /\ Persist(writes, [register |-> e])
    BY <1>8 DEF Register, Kept, Typed
  <2>2. Late(entries') /\ entries' \subseteq Ids
    BY <1>1, <2>1 DEF Late, LateStages, Announced, Typed
  <2>3. \A n \in DOMAIN writes' : Late(writes'[n].file.entries)
    BY <1>4, <2>1, <2>2, ChainAfter
  <2> QED
    BY <1>1, <2>1, <2>2, <2>3
<1>9. CASE Forgets
  <2>1. Late(entries') /\ entries' \subseteq Ids
    BY <1>1, <1>9 DEF Forgets, Late, Typed
  <2>2. \A n \in DOMAIN writes' : Late(writes'[n].file.entries)
    BY <1>4, <1>9, <2>1, ChainAfter DEF Forgets
  <2> QED
    BY <1>1, <1>9, <2>1, <2>2 DEF Forgets
<1>10. ASSUME NEW s \in Sessions, LoopBegins(s) PROVE Goal
  <2>1. PICK step \in Ticks : Goes(s, step, writes) /\ \A e \in step.todo : e \in entries /\ route[e].session = s
    BY <1>10, LoopBeginsCases
  <2>2. Late(step.todo)
    BY <1>1, <2>1 DEF Late
  <2>3. UNCHANGED disk
    BY <1>10, LoopBeginsCases
  <2> QED
    BY <1>1, <1>6, <2>1, <2>2, <2>3, ChainAfter
<1>11. ASSUME NEW s \in Sessions, RequestArrives(s) PROVE Goal
  <2>1. tick[s] # Asleep /\ tick' = [tick EXCEPT ![s].phase = "answer"] /\ UNCHANGED <<entries, writes, disk>>
    BY <1>11 DEF RequestArrives, TickIn, storage
  <2>2. tick'[s].todo = tick[s].todo /\ \A q \in Sessions : q # s => tick'[q] = tick[q]
    BY <2>1, PhaseType DEF Phases
  <2> QED
    BY <1>1, <2>1, <2>2
<1>12. ASSUME NEW s \in Sessions, AnswerArrives(s) PROVE Goal
  <2>1. tick[s] # Asleep /\ tick' = [tick EXCEPT ![s].phase = "removing"] /\ UNCHANGED disk
        /\ entries' \subseteq entries /\ Persist(writes, [tick |-> s])
    BY <1>12 DEF AnswerArrives, TickIn
  <2>2. tick'[s].todo = tick[s].todo /\ \A q \in Sessions : q # s => tick'[q] = tick[q]
    BY <2>1, PhaseType DEF Phases
  <2>3. Late(entries') /\ entries' \subseteq Ids
    BY <1>1, <2>1 DEF Late, Typed
  <2>4. \A n \in DOMAIN writes' : Late(writes'[n].file.entries)
    BY <1>4, <2>1, <2>3, ChainAfter
  <2> QED
    BY <1>1, <2>1, <2>2, <2>3, <2>4
<1>13. CASE LateArrives \/ Start
  BY <1>1, <1>13 DEF LateArrives, Start, runtime, storage
<1>14. CASE Crash
  BY <1>1, <1>14 DEF Crash, Late
<1>15. CASE Load
  BY <1>1, <1>15 DEF Load, storage
<1> QED
  BY <1>3, <1>7, <1>8, <1>9, <1>10, <1>11, <1>12, <1>13, <1>14, <1>15, StepKinds

-----------------------------------------------------------------------------
(* Who waits for which write *)

\* Those who wait are told apart.
LEMMA WaitersDiffer ==
  ASSUME NEW s, NEW q, NEW e
  PROVE  /\ [tick |-> s] # NoWaiter /\ [tick |-> s] # [register |-> e]
         /\ [tick |-> s] = [tick |-> q] => s = q
<1>1. [tick |-> s] # NoWaiter /\ [tick |-> s] # [register |-> e]
  BY DEF NoWaiter
<1>2. ASSUME [tick |-> s] = [tick |-> q] PROVE s = q
  <2>1. [tick |-> s].tick = [tick |-> q].tick
    BY <1>2
  <2> QED
    BY <2>1
<1> QED
  BY <1>1, <1>2

\* A chain that is left, when those it is awaited by go on waiting.
LEMMA LeftWaiting ==
  ASSUME Typed, Waiting, NEW chain, NEW d, After(chain, d), writes' = chain,
         \A q \in Sessions : \A n \in DOMAIN chain : chain[n].waiter = [tick |-> q] => Awaits(q)'
  PROVE  Waiting'
<1> SUFFICES ASSUME NEW q \in Sessions, NEW n \in DOMAIN writes', writes'[n].waiter = [tick |-> q]
             PROVE  Awaits(q)' /\ \A k \in DOMAIN writes' : writes'[k].waiter = [tick |-> q] => k = n
  BY DEF Waiting
<1>1. n + d \in DOMAIN writes /\ writes[n + d].waiter = [tick |-> q]
  BY DEF After
<1>2. ASSUME NEW k \in DOMAIN writes', writes'[k].waiter = [tick |-> q] PROVE k = n
  <2>1. k + d \in DOMAIN writes /\ writes[k + d].waiter = [tick |-> q]
    BY <1>2 DEF After
  <2>2. k + d = n + d
    BY <1>1, <2>1 DEF Waiting
  <2> QED
    BY <1>2, <2>2 DEF After
<1> QED
  BY <1>2

\* A file that is written for one that waits for nothing else.
LEMMA PersistWaiting ==
  ASSUME Typed, Waiting, NEW chain, NEW d, After(chain, d), NEW waiter, Persist(chain, waiter), entries' \subseteq Ids,
         \A q \in Sessions : \A n \in DOMAIN chain : chain[n].waiter = [tick |-> q] => Awaits(q)' /\ waiter # [tick |-> q],
         \A q \in Sessions : waiter = [tick |-> q] => Awaits(q)'
  PROVE  Waiting'
<1> SUFFICES ASSUME NEW q \in Sessions, NEW n \in DOMAIN writes', writes'[n].waiter = [tick |-> q]
             PROVE  Awaits(q)' /\ \A k \in DOMAIN writes' : writes'[k].waiter = [tick |-> q] => k = n
  BY DEF Waiting
<1>1. chain \in Seq(Written)
  BY DEF After
<1>2. \A k \in DOMAIN writes' : \/ k = Len(chain) + 1 /\ writes'[k].waiter = waiter
                                \/ k \in DOMAIN chain /\ writes'[k] = chain[k]
  BY <1>1, PersistLast
<1>3. Awaits(q)'
  BY <1>2
<1>4. ASSUME NEW k \in DOMAIN writes', writes'[k].waiter = [tick |-> q] PROVE k = n
  <2>1. CASE waiter = [tick |-> q]
    BY <1>2, <1>4, <2>1
  <2>2. CASE waiter # [tick |-> q]
    <3>1. /\ n \in DOMAIN chain /\ chain[n].waiter = [tick |-> q]
          /\ k \in DOMAIN chain /\ chain[k].waiter = [tick |-> q]
      BY <1>2, <1>4, <2>2
    <3>2. n + d \in DOMAIN writes /\ writes[n + d].waiter = [tick |-> q]
          /\ k + d \in DOMAIN writes /\ writes[k + d].waiter = [tick |-> q]
      BY <3>1 DEF After
    <3>3. k + d = n + d
      BY <3>2 DEF Waiting
    <3> QED
      BY <3>1, <3>3 DEF After
  <2> QED
    BY <2>1, <2>2
<1> QED
  BY <1>3, <1>4

\* The loop of a tick that nothing is written for goes on.
LEMMA GoesWaiting ==
  ASSUME Typed, Waiting, NEW s \in Sessions, NEW step, NEW chain, NEW d, After(chain, d), Goes(s, step, chain),
         \A n \in DOMAIN chain : chain[n].waiter # [tick |-> s]
  PROVE  Waiting'
<1>1. step \in Ticks /\ chain \in Seq(Written) /\ NextEntry(s, step, chain) /\ entries' \subseteq Ids
  BY DEF Goes, Typed
<1>2. \A q \in Sessions : q # s => tick'[q] = tick[q]
  BY <1>1, NextEntryCases
<1>3. ASSUME NEW q \in Sessions, NEW n \in DOMAIN chain, chain[n].waiter = [tick |-> q]
      PROVE  Awaits(q)' /\ q # s
  <2>1. q # s
    BY <1>3
  <2>2. n + d \in DOMAIN writes /\ writes[n + d].waiter = [tick |-> q]
    BY <1>3 DEF After
  <2>3. Awaits(q)
    BY <2>2 DEF Waiting
  <2> QED
    BY <1>2, <2>1, <2>3 DEF Awaits, TickIn
<1>4. CASE writes' = chain
  BY <1>3, <1>4, LeftWaiting
<1>5. CASE Persist(chain, [tick |-> s]) /\ tick'[s] # Asleep /\ tick'[s].phase = "minting"
  <2>1. Awaits(s)'
    BY <1>5 DEF Awaits, TickIn
  <2>2. \A q \in Sessions : [tick |-> s] = [tick |-> q] => q = s
    BY WaitersDiffer
  <2> QED
    BY <1>1, <1>3, <1>5, <2>1, <2>2, PersistWaiting
<1> QED
  BY <1>1, <1>4, <1>5, NextEntryCases

\* Writes and those who wait for them stay matched.
LEMMA WaitingStep ==
  ASSUME Typed, Looks, Waiting, [Next]_vars
  PROVE  Waiting'
<1> DEFINE Same == \A q \in Sessions : Awaits(q) => Awaits(q)'
<1>1. After(writes, 0) /\ (writes # <<>> => After(Tail(writes), 1) /\ Head(writes) = writes[1] /\ 1 \in DOMAIN writes)
  BY ChainAfter
\* Nobody stops waiting.
<1>2. ASSUME Same, UNCHANGED writes PROVE Waiting'
  <2>1. \A q \in Sessions : \A n \in DOMAIN writes : writes[n].waiter = [tick |-> q] => Awaits(q)'
    BY <1>2 DEF Waiting
  <2> QED
    BY <1>1, <1>2, <2>1, LeftWaiting
<1>3. ASSUME Same, NEW waiter, Persist(writes, waiter), entries' \subseteq Ids,
             \A q \in Sessions : waiter # [tick |-> q]
      PROVE  Waiting'
  <2>1. \A q \in Sessions : \A n \in DOMAIN writes : writes[n].waiter = [tick |-> q] => Awaits(q)'
    BY <1>3 DEF Waiting
  <2> QED
    BY <1>1, <1>3, <2>1, PersistWaiting
<1>4. CASE Calm
  <2>1. Same
    BY <1>4 DEF Calm, Awaits, TickIn
  <2> QED
    BY <1>2, <1>4, <2>1 DEF Calm
<1>5. CASE Forgets
  <2>1. Same /\ entries' \subseteq Ids /\ Persist(writes, NoWaiter)
    BY <1>5 DEF Forgets, Awaits, TickIn, Typed
  <2> QED
    BY <1>3, <2>1, WaitersDiffer
<1>6. ASSUME NEW e \in Ids, Register(e) PROVE Waiting'
  <2>1. Same /\ entries' \subseteq Ids /\ Persist(writes, [register |-> e])
    BY <1>6 DEF Register, Kept, Awaits, TickIn, Typed
  <2> QED
    BY <1>3, <2>1, WaitersDiffer
<1>7. CASE WriteEnds
  <2>1. writes # <<>>
    BY <1>7, WriteEndsCases
  <2>2. CASE writes' = Tail(writes) /\ UNCHANGED tick
    <3>1. ASSUME NEW q \in Sessions, NEW n \in DOMAIN Tail(writes), Tail(writes)[n].waiter = [tick |-> q]
          PROVE  Awaits(q)'
      <4>1. n + 1 \in DOMAIN writes /\ writes[n + 1].waiter = [tick |-> q]
        BY <1>1, <2>1, <3>1 DEF After
      <4>2. Awaits(q)
        BY <4>1 DEF Waiting
      <4> QED
        BY <2>2, <4>2 DEF Awaits, TickIn
    <3> QED
      BY <1>1, <2>1, <2>2, <3>1, LeftWaiting
  <2>3. ASSUME NEW s \in Sessions, NEW step \in Ticks, Head(writes).waiter = [tick |-> s], Goes(s, step, Tail(writes))
        PROVE  Waiting'
    <3>1. ASSUME NEW n \in DOMAIN Tail(writes), Tail(writes)[n].waiter = [tick |-> s] PROVE FALSE
      <4>1. n \in Nat \ {0} /\ n + 1 \in DOMAIN writes /\ writes[n + 1].waiter = [tick |-> s]
        BY <1>1, <2>1, <3>1 DEF After
      <4>2. n + 1 = 1
        BY <1>1, <2>1, <2>3, <4>1 DEF Waiting
      <4> QED
        BY <4>1, <4>2
    <3> QED
      BY <1>1, <2>1, <2>3, <3>1, GoesWaiting
  <2> QED
    BY <1>7, <2>2, <2>3, WriteEndsCases
<1>8. ASSUME NEW s \in Sessions, LoopBegins(s) PROVE Waiting'
  <2>1. PICK step \in Ticks : Goes(s, step, writes)
    BY <1>8, LoopBeginsCases
  <2>2. \A n \in DOMAIN writes : writes[n].waiter # [tick |-> s]
    BY <1>8, LoopBeginsCases DEF Waiting, Awaits, TickIn
  <2> QED
    BY <1>1, <2>1, <2>2, GoesWaiting
<1>9. ASSUME NEW s \in Sessions, RequestArrives(s) PROVE Waiting'
  <2>1. tick[s] # Asleep /\ tick' = [tick EXCEPT ![s].phase = "answer"] /\ UNCHANGED writes /\ tick[s].phase = "request"
    BY <1>9 DEF RequestArrives, TickIn, storage
  <2>2. \A q \in Sessions : q # s => tick'[q] = tick[q]
    BY <2>1, PhaseType DEF Phases
  <2>3. Same
    BY <2>1, <2>2 DEF Awaits, TickIn
  <2> QED
    BY <1>2, <2>1, <2>3
<1>10. ASSUME NEW s \in Sessions, AnswerArrives(s) PROVE Waiting'
  <2>1. /\ tick[s] # Asleep /\ tick' = [tick EXCEPT ![s].phase = "removing"] /\ tick[s].phase = "answer"
        /\ entries' \subseteq Ids /\ Persist(writes, [tick |-> s])
    BY <1>10 DEF AnswerArrives, TickIn, Typed
  <2>2. Awaits(s)' /\ \A q \in Sessions : q # s => tick'[q] = tick[q]
    BY <2>1, PhaseType DEF Phases, Awaits, TickIn
  <2>3. ASSUME NEW q \in Sessions, NEW n \in DOMAIN writes, writes[n].waiter = [tick |-> q]
        PROVE  Awaits(q)' /\ [tick |-> s] # [tick |-> q]
    <3>1. Awaits(q)
      BY <2>3 DEF Waiting
    <3>2. q # s
      BY <2>1, <3>1 DEF Awaits, TickIn
    <3> QED
      BY <2>2, <3>1, <3>2, WaitersDiffer DEF Awaits, TickIn
  <2>4. \A q \in Sessions : [tick |-> s] = [tick |-> q] => Awaits(q)'
    BY <2>2, WaitersDiffer
  <2> QED
    BY <1>1, <2>1, <2>3, <2>4, PersistWaiting
<1>11. CASE LateArrives \/ Start
  <2>1. Same /\ UNCHANGED writes
    BY <1>11 DEF LateArrives, Start, runtime, storage, Awaits, TickIn
  <2> QED
    BY <1>2, <2>1
<1>12. CASE Crash
  BY <1>12 DEF Crash, Waiting
<1>13. CASE Load
  <2>1. Same /\ UNCHANGED writes
    BY <1>13 DEF Load, storage, Awaits, TickIn
  <2> QED
    BY <1>2, <2>1
<1> QED
  BY <1>4, <1>5, <1>6, <1>7, <1>8, <1>9, <1>10, <1>11, <1>12, <1>13, StepKinds

-----------------------------------------------------------------------------
(* Message ids and files *)

\* A step that leaves an entry and its id alone.
LEMMA IdKept ==
  ASSUME Typed, NEW e \in Ids, IdOf(e), UNCHANGED route, message'[e] = message[e],
         MintingOf(e)' <=> MintingOf(e), NEW chain, NEW d, After(chain, d), entries' \subseteq Ids,
         \/ writes' = chain
         \/ \E waiter : Persist(chain, waiter) /\ (MintingOf(e) => waiter # [tick |-> route[e].session]),
         disk' = disk \/ (1 \in DOMAIN writes /\ disk' = writes[1].file)
  PROVE  IdOf(e)'
<1> DEFINE own == [tick |-> route[e].session]
           Fits(file) == e \in file.entries => file.message[e] = message[e]
<1>1. chain \in Seq(Written)
  BY DEF After
\* What a file in the chain is.
<1>2. ASSUME NEW n \in DOMAIN writes'
      PROVE  /\ n \in Nat
             /\ \/ n \in DOMAIN chain /\ writes'[n] = chain[n]
                \/ /\ n = Len(chain) + 1 /\ Fits(writes'[n].file)
                   /\ MintingOf(e) => writes'[n].waiter # own
  <2>1. CASE writes' = chain
    BY <1>2, <2>1 DEF After
  <2>2. ASSUME NEW waiter, Persist(chain, waiter), MintingOf(e) => waiter # own
        PROVE  /\ n \in Nat
               /\ \/ n \in DOMAIN chain /\ writes'[n] = chain[n]
                  \/ /\ n = Len(chain) + 1 /\ Fits(writes'[n].file)
                     /\ MintingOf(e) => writes'[n].waiter # own
    BY <1>1, <1>2, <2>2, PersistLast
  <2> QED
    BY <2>1, <2>2
<1>3. CASE MintingOf(e)
  <2>1. ASSUME NEW n \in DOMAIN writes', writes'[n].waiter = own, NEW k \in DOMAIN writes', k >= n
        PROVE  Fits(writes'[k].file)
    <3>1. n \in Nat /\ k \in Nat /\ n \in DOMAIN chain /\ chain[n].waiter = own
      BY <1>2, <1>3, <2>1
    <3>2. CASE k \in DOMAIN chain /\ writes'[k] = chain[k]
      <4>1. /\ n + d \in DOMAIN writes /\ writes[n + d].waiter = own
            /\ k + d \in DOMAIN writes /\ writes[k + d] = chain[k]
            /\ k + d >= n + d
        BY <2>1, <3>1, <3>2 DEF After
      <4> QED
        BY <1>3, <3>2, <4>1 DEF IdOf, Agrees
    <3> QED
      BY <1>2, <3>2
  <2> QED
    BY <1>3, <2>1 DEF IdOf, Agrees
<1>4. CASE ~MintingOf(e)
  <2>1. Fits(disk')
    BY <1>4 DEF IdOf, Agrees
  <2>2. ASSUME NEW n \in DOMAIN writes' PROVE Fits(writes'[n].file)
    <3>1. CASE n \in DOMAIN chain /\ writes'[n] = chain[n]
      <4>1. n + d \in DOMAIN writes /\ writes[n + d] = chain[n]
        BY <3>1 DEF After
      <4> QED
        BY <1>4, <3>1, <4>1 DEF IdOf, Agrees
    <3> QED
      BY <1>2, <2>2, <3>1
  <2> QED
    BY <1>4, <2>1, <2>2 DEF IdOf, Agrees
<1> QED
  BY <1>3, <1>4

\* The loop goes on, with an entry of the session whose id every file knows.
LEMMA IdGoes ==
  ASSUME Typed, NEW s \in Sessions, NEW step, NEW chain, Goes(s, step, chain),
         \A n \in DOMAIN chain : chain[n].waiter # [tick |-> s],
         NEW e \in Ids, route[e].session = s,
         e \in disk'.entries => disk'.message[e] = message[e],
         \A n \in DOMAIN chain : e \in chain[n].file.entries => chain[n].file.message[e] = message[e]
  PROVE  IdOf(e)'
<1>1. step \in Ticks /\ chain \in Seq(Written) /\ NextEntry(s, step, chain) /\ entries' \subseteq Ids /\ UNCHANGED route
  BY DEF Goes, Typed
<1>2. CASE /\ step.todo # {} /\ tick'[s] # Asleep
           /\ tick'[s].phase = "minting" /\ tick'[s].todo = step.todo
           /\ message' = [message EXCEPT ![Oldest(step.todo)] = minted + 1]
           /\ Persist(chain, [tick |-> s])
  <2>1. \A n \in DOMAIN writes' :
          /\ n \in Nat
          /\ \/ n \in DOMAIN chain /\ writes'[n] = chain[n] /\ n < Len(chain) + 1
             \/ /\ n = Len(chain) + 1
                /\ e \in writes'[n].file.entries => writes'[n].file.message[e] = message'[e]
    BY <1>1, <1>2, PersistLast
  <2>2. CASE Oldest(step.todo) = e
    <3>1. MintingOf(e)'
      BY <1>1, <1>2, <2>2 DEF MintingOf, TickIn, At
    <3>2. ASSUME NEW n \in DOMAIN writes', writes'[n].waiter = [tick |-> s], NEW k \in DOMAIN writes', k >= n
          PROVE  e \in writes'[k].file.entries => writes'[k].file.message[e] = message'[e]
      <4>1. n = Len(chain) + 1
        BY <2>1, <3>2
      <4>2. k = Len(chain) + 1
        BY <1>1, <2>1, <3>2, <4>1
      <4> QED
        BY <2>1, <4>2
    <3> QED
      BY <1>1, <3>1, <3>2 DEF IdOf, Agrees
  <2>3. CASE Oldest(step.todo) # e
    <3>1. ~MintingOf(e)' /\ message'[e] = message[e]
      BY <1>1, <1>2, <2>3 DEF MintingOf, TickIn, At, Typed
    <3> QED
      BY <2>1, <3>1 DEF IdOf, Agrees
  <2> QED
    BY <2>2, <2>3
<1>3. CASE writes' = chain /\ UNCHANGED message /\ (tick'[s] # Asleep => tick'[s].phase = "request")
  <2>1. ~MintingOf(e)'
    BY <1>1, <1>3 DEF MintingOf, TickIn
  <2> QED
    BY <1>3, <2>1 DEF IdOf, Agrees
<1> QED
  BY <1>1, <1>2, <1>3, NextEntryCases

\* An id that the loop of one session mints is of that session.
LEMMA MintsOwn ==
  ASSUME Typed, NEW s \in Sessions, NEW step, NEW chain, Goes(s, step, chain),
         \A f \in step.todo : route[f].session = s, NEW e \in Ids, route[e].session # s
  PROVE  message'[e] = message[e] /\ (MintingOf(e)' <=> MintingOf(e))
<1>1. step \in Ticks /\ chain \in Seq(Written) /\ NextEntry(s, step, chain) /\ UNCHANGED route
  BY DEF Goes
<1>2. route[e].session \in Sessions
  BY DEF Typed
<1>3. tick'[route[e].session] = tick[route[e].session]
  BY <1>1, <1>2, NextEntryCases
<1>4. step.todo # {} => Oldest(step.todo) \in step.todo
  BY <1>1, OldestIn DEF Ticks
<1>5. message'[e] = message[e]
  BY <1>1, <1>4, NextEntryCases DEF Typed
<1> QED
  BY <1>1, <1>3, <1>5 DEF MintingOf, TickIn, At

\* Every file keeps the ids it will be asked for, unless a write has failed.
LEMMA IdsStep ==
  ASSUME ~Happens("writeFails"), Typed, Looks, Stopped, Waiting, IdsWritten, [Next]_vars
  PROVE  IdsWritten'
<1> SUFFICES ASSUME server' = "up", NEW e \in Ids PROVE IdOf(e)'
  BY DEF IdsWritten
<1> DEFINE s == route[e].session
           own == [tick |-> s]
<1>1. s \in Sessions
  BY DEF Typed
<1>2. After(writes, 0) /\ (writes # <<>> => After(Tail(writes), 1) /\ Head(writes) = writes[1] /\ 1 \in DOMAIN writes)
  BY ChainAfter
<1>3. server = "up" => IdOf(e)
  BY DEF IdsWritten
<1>4. CASE Calm
  <2>1. UNCHANGED <<server, entries, message, writes, disk, route>> /\ entries' \subseteq Ids
    BY <1>4 DEF Calm, Typed
  <2>2. \/ tick'[s] = tick[s]
        \/ ~TickIn(s, "minting") /\ (tick'[s] # Asleep => tick'[s].phase \notin AtEntry)
    BY <1>1, <1>4 DEF Calm
  <2>3. MintingOf(e)' <=> MintingOf(e)
    BY <2>1, <2>2 DEF MintingOf, TickIn, At, AtEntry
  <2> QED
    BY <1>2, <1>3, <2>1, <2>3, IdKept
<1>5. CASE Forgets
  <2>1. UNCHANGED <<server, message, tick, disk, route>> /\ entries' \subseteq Ids /\ Persist(writes, NoWaiter)
    BY <1>5 DEF Forgets, Typed
  <2>2. MintingOf(e)' <=> MintingOf(e)
    BY <2>1 DEF MintingOf, TickIn, At
  <2> QED
    BY <1>2, <1>3, <2>1, <2>2, IdKept, WaitersDiffer
<1>6. ASSUME NEW f \in Ids, Register(f) PROVE IdOf(e)'
  <2>1. UNCHANGED <<server, message, tick, disk, route>> /\ entries' \subseteq Ids /\ Persist(writes, [register |-> f])
    BY <1>6 DEF Register, Kept, Typed
  <2>2. MintingOf(e)' <=> MintingOf(e)
    BY <2>1 DEF MintingOf, TickIn, At
  <2>3. [register |-> f] # own
    BY WaitersDiffer
  <2> QED
    BY <1>2, <1>3, <2>1, <2>2, <2>3, IdKept
\* The loop of another session goes on.
<1>7. ASSUME NEW q \in Sessions, q # s, NEW step, NEW chain, NEW d, After(chain, d), Goes(q, step, chain),
             \A f \in step.todo : route[f].session = q,
             disk' = disk \/ (1 \in DOMAIN writes /\ disk' = writes[1].file)
      PROVE  IdOf(e)'
  <2>1. message'[e] = message[e] /\ (MintingOf(e)' <=> MintingOf(e))
    BY <1>7, MintsOwn
  <2>2. step \in Ticks /\ chain \in Seq(Written) /\ NextEntry(q, step, chain) /\ UNCHANGED <<server, route>>
        /\ entries' \subseteq Ids
    BY <1>7 DEF Goes, Typed
  <2>3. writes' = chain \/ Persist(chain, [tick |-> q])
    BY <2>2, NextEntryCases
  <2>4. [tick |-> q] # own
    BY <1>7, WaitersDiffer
  <2> QED
    BY <1>3, <1>7, <2>1, <2>2, <2>3, <2>4, IdKept
<1>8. CASE WriteEnds
  <2>1. /\ writes # <<>> /\ UNCHANGED <<server, entries, route>> /\ entries' \subseteq Ids
        /\ disk' = Head(writes).file
    BY <1>8, WriteEndsCases DEF Typed
  <2>2. CASE writes' = Tail(writes) /\ UNCHANGED <<tick, message>>
    <3>1. MintingOf(e)' <=> MintingOf(e)
      BY <2>1, <2>2 DEF MintingOf, TickIn, At
    <3> QED
      BY <1>2, <1>3, <2>1, <2>2, <3>1, IdKept
  <2>3. ASSUME NEW q \in Sessions, NEW step \in Ticks, Head(writes).waiter = [tick |-> q],
               Goes(q, step, Tail(writes)), step.todo \subseteq tick[q].todo
        PROVE  IdOf(e)'
    <3>1. \A f \in step.todo : route[f].session = q
      BY <2>3 DEF Goes, Looks
    <3>2. CASE q # s
      BY <1>2, <1>7, <2>1, <2>3, <3>1, <3>2
    <3>3. CASE q = s
      <4>1. IdOf(e)
        BY <1>3, <2>1
      <4>2. \A n \in DOMAIN writes : n \in Nat \ {0} /\ Agrees(writes[n].file, e)
        <5>1. \A n \in DOMAIN writes : n \in Nat \ {0} /\ n >= 1
          BY <1>2, <2>1 DEF After
        <5>2. CASE MintingOf(e)
          BY <1>2, <2>1, <2>3, <3>3, <4>1, <5>1, <5>2 DEF IdOf
        <5>3. CASE ~MintingOf(e)
          BY <4>1, <5>1, <5>3 DEF IdOf
        <5> QED
          BY <5>2, <5>3, <5>1
      <4>3. e \in disk'.entries => disk'.message[e] = message[e]
        BY <1>2, <2>1, <4>2 DEF Agrees
      <4>4. ASSUME NEW n \in DOMAIN Tail(writes)
            PROVE  /\ Tail(writes)[n].waiter # own
                   /\ e \in Tail(writes)[n].file.entries => Tail(writes)[n].file.message[e] = message[e]
        <5>1. n \in Nat \ {0} /\ n + 1 \in DOMAIN writes /\ Tail(writes)[n] = writes[n + 1]
          BY <1>2, <2>1, <4>4 DEF After
        <5>2. writes[n + 1].waiter = own => n + 1 = 1
          BY <1>1, <1>2, <2>1, <2>3, <3>3, <5>1 DEF Waiting
        <5> QED
          BY <4>2, <5>1, <5>2 DEF Agrees
      <4> QED
        BY <1>1, <2>3, <3>3, <4>3, <4>4, IdGoes
    <3> QED
      BY <3>2, <3>3
  <2> QED
    BY <1>8, <2>2, <2>3, WriteEndsCases
<1>9. ASSUME NEW q \in Sessions, LoopBegins(q) PROVE IdOf(e)'
  <2>1. PICK step \in Ticks : Goes(q, step, writes) /\ \A f \in step.todo : route[f].session = q
    BY <1>9, LoopBeginsCases
  <2>2. TickIn(q, "loop") /\ UNCHANGED disk
    BY <1>9, LoopBeginsCases
  <2>3. CASE q # s
    BY <1>2, <1>7, <2>1, <2>2, <2>3
  <2>4. CASE q = s
    <3>1. ~MintingOf(e) /\ IdOf(e)
      BY <1>3, <2>1, <2>2, <2>4 DEF MintingOf, TickIn, Goes
    <3>2. \A n \in DOMAIN writes : writes[n].waiter # [tick |-> q]
      BY <2>2 DEF Waiting, Awaits, TickIn
    <3> QED
      BY <1>1, <2>1, <2>2, <2>4, <3>1, <3>2, IdGoes DEF IdOf, Agrees
  <2> QED
    BY <2>3, <2>4
<1>10. ASSUME NEW q \in Sessions, RequestArrives(q) PROVE IdOf(e)'
  <2>1. /\ tick[q] # Asleep /\ tick' = [tick EXCEPT ![q].phase = "answer"] /\ tick[q].phase = "request"
        /\ UNCHANGED <<server, entries, message, writes, disk, route>> /\ entries' \subseteq Ids
    BY <1>10 DEF RequestArrives, TickIn, storage, dispatch, Typed
  <2>2. tick'[q].phase = "answer" /\ \A p \in Sessions : p # q => tick'[p] = tick[p]
    BY <2>1, PhaseType DEF Phases
  <2>3. MintingOf(e)' <=> MintingOf(e)
    BY <1>1, <2>1, <2>2 DEF MintingOf, TickIn, At
  <2> QED
    BY <1>2, <1>3, <2>1, <2>3, IdKept
<1>11. ASSUME NEW q \in Sessions, AnswerArrives(q) PROVE IdOf(e)'
  <2>1. /\ tick[q] # Asleep /\ tick' = [tick EXCEPT ![q].phase = "removing"] /\ tick[q].phase = "answer"
        /\ UNCHANGED <<server, message, disk, route>> /\ entries' \subseteq Ids
        /\ Persist(writes, [tick |-> q])
    BY <1>11 DEF AnswerArrives, TickIn, dispatch, Typed
  <2>2. tick'[q].phase = "removing" /\ \A p \in Sessions : p # q => tick'[p] = tick[p]
    BY <2>1, PhaseType DEF Phases
  <2>3. MintingOf(e)' <=> MintingOf(e)
    BY <1>1, <2>1, <2>2 DEF MintingOf, TickIn, At
  <2>4. MintingOf(e) => q # s
    BY <2>1 DEF MintingOf, TickIn
  <2>5. MintingOf(e) => [tick |-> q] # own
    BY <2>4, WaitersDiffer
  <2> QED
    BY <1>2, <1>3, <2>1, <2>3, <2>5, IdKept
<1>12. CASE LateArrives
  <2>1. UNCHANGED <<server, entries, message, tick, writes, disk, route>> /\ entries' \subseteq Ids
    BY <1>12 DEF LateArrives, runtime, storage, dispatch, Typed
  <2>2. MintingOf(e)' <=> MintingOf(e)
    BY <2>1 DEF MintingOf, TickIn, At
  <2> QED
    BY <1>2, <1>3, <2>1, <2>2, IdKept
<1>13. CASE Load
  <2>1. /\ writes' = <<>> /\ message' = disk.message /\ disk' = disk /\ UNCHANGED <<tick, route>>
        /\ \A q \in Sessions : tick[q] = Asleep
    BY <1>13 DEF Load, Stopped, storage, dispatch
  <2>2. ~MintingOf(e)'
    BY <1>1, <2>1 DEF MintingOf, TickIn
  <2> QED
    BY <2>1, <2>2 DEF IdOf, Agrees
<1>14. CASE Crash \/ Start
  BY <1>14 DEF Crash, Start
<1> QED
  BY <1>4, <1>5, <1>6, <1>8, <1>9, <1>10, <1>11, <1>12, <1>13, <1>14, StepKinds

-----------------------------------------------------------------------------
(* One id, one delivery *)

\* A request is sent under the id that is known everywhere.
LEMMA RequestHolds ==
  ASSUME Typed, Looks, Stopped, Registered, IdsWritten, Sending, OneId,
         NEW s \in Sessions, TickIn(s, "request")
  PROVE  /\ RequestOf(s) \in Sent /\ RequestOf(s).id = At(s) /\ RequestOf(s).message = message[At(s)]
         /\ At(s) \in Ids /\ Holds(At(s), message[At(s)])
         /\ \A k \in Used(At(s)) : k = message[At(s)]
<1> DEFINE e == At(s)
<1>1. RequestOf(s) \in Sent /\ e \in tick[s].todo /\ e \in Ids
  BY RequestType
<1>2. RequestOf(s).id = e /\ RequestOf(s).message = message[e]
  BY DEF RequestOf, At
<1>3. server = "up" /\ route[e].session = s /\ stage[e] \in LateStages /\ message[e] # NoMessage
  BY <1>1 DEF Stopped, Looks, Registered, Sending, TickIn
<1>4. IdOf(e) /\ ~MintingOf(e)
  BY <1>1, <1>3 DEF IdsWritten, MintingOf, TickIn
<1>5. Agrees(disk, e) /\ \A n \in DOMAIN writes : Agrees(writes[n].file, e)
  BY <1>4 DEF IdOf
<1>6. Holds(e, message[e])
  BY <1>3, <1>5 DEF Holds, Agrees
<1>7. \A k \in Used(e) : k = message[e]
  BY <1>1 DEF OneId, Holds, TickIn
<1> QED
  BY <1>1, <1>2, <1>6, <1>7

\* The id under which a result is known stays the same.
LEMMA HoldsStep ==
  ASSUME Typed, Looks, Stopped, [Next]_vars, NEW e \in Ids, NEW m, Holds(e, m)
  PROVE  Holds(e, m)'
<1> DEFINE Knows(file) == e \in file.entries => file.message[e] = m
<1>1. m # NoMessage /\ stage'[e] \in LateStages
  BY StagesLast DEF Holds
<1>2. Knows(disk) /\ \A n \in DOMAIN writes : Knows(writes[n].file)
  BY DEF Holds
<1>3. After(writes, 0) /\ (writes # <<>> => After(Tail(writes), 1) /\ Head(writes) = writes[1] /\ 1 \in DOMAIN writes)
  BY ChainAfter
<1>4. SUFFICES /\ e \in entries' => message'[e] = m
               /\ \A s \in Sessions : tick'[s] # Asleep /\ e \in tick'[s].todo => message'[e] = m
               /\ Knows(disk') /\ \A n \in DOMAIN writes' : Knows(writes'[n].file)
  BY <1>1 DEF Holds
<1> DEFINE Goal == /\ e \in entries' => message'[e] = m
                   /\ \A s \in Sessions : tick'[s] # Asleep /\ e \in tick'[s].todo => message'[e] = m
                   /\ Knows(disk') /\ \A n \in DOMAIN writes' : Knows(writes'[n].file)
\* Files that are written or left.
<1>5. ASSUME NEW chain, NEW d, After(chain, d), entries' \subseteq Ids, e \in entries' => message'[e] = m,
             writes' = chain \/ \E waiter : Persist(chain, waiter)
      PROVE  \A n \in DOMAIN writes' : Knows(writes'[n].file)
  <2>1. chain \in Seq(Written) /\ \A n \in DOMAIN chain : Knows(chain[n].file)
    BY <1>2, <1>5 DEF After
  <2>2. ASSUME NEW waiter, Persist(chain, waiter) PROVE \A n \in DOMAIN writes' : Knows(writes'[n].file)
    BY <1>5, <2>1, <2>2, PersistLast
  <2> QED
    BY <1>5, <2>1, <2>2
\* The loop of a tick goes on.
<1>6. ASSUME NEW q \in Sessions, NEW step, NEW chain, NEW d, After(chain, d), Goes(q, step, chain),
             e \in step.todo => message[e] = m, Knows(disk')
      PROVE  Goal
  <2>1. step \in Ticks /\ chain \in Seq(Written) /\ NextEntry(q, step, chain) /\ UNCHANGED entries /\ entries' \subseteq Ids
    BY <1>6 DEF Goes, Typed
  <2>2. step.todo # {} => Oldest(step.todo) \in step.todo
    BY <2>1, OldestIn DEF Ticks
  <2>3. e = Oldest(step.todo) /\ step.todo # {} => message[e] # NoMessage
    BY <1>1, <1>6, <2>2
  <2>4. message'[e] = message[e]
    BY <2>1, <2>3, NextEntryCases DEF Typed
  <2>5. \A s \in Sessions : tick'[s] # Asleep /\ e \in tick'[s].todo => message'[e] = m
    BY <1>6, <2>1, <2>4, NextEntryCases DEF Holds
  <2>6. writes' = chain \/ Persist(chain, [tick |-> q])
    BY <2>1, NextEntryCases
  <2>7. e \in entries' => message'[e] = m
    BY <2>1, <2>4 DEF Holds
  <2> QED
    BY <1>5, <1>6, <2>1, <2>5, <2>6, <2>7
<1>7. CASE Calm
  <2>1. \A s \in Sessions : tick'[s] # Asleep /\ e \in tick'[s].todo => message'[e] = m
    BY <1>7 DEF Calm, Holds
  <2> QED
    BY <1>2, <1>7, <2>1 DEF Calm, Holds
<1>8. CASE Forgets
  <2>1. UNCHANGED <<message, tick, disk>> /\ entries' \subseteq entries /\ Persist(writes, NoWaiter)
    BY <1>8 DEF Forgets
  <2>2. entries' \subseteq Ids /\ (e \in entries' => message'[e] = m)
    BY <2>1 DEF Holds, Typed
  <2> QED
    BY <1>2, <1>3, <1>5, <2>1, <2>2 DEF Holds
<1>9. ASSUME NEW f \in Ids, Register(f) PROVE Goal
  <2>1. /\ UNCHANGED <<message, tick, disk>> /\ entries' \subseteq entries \cup {f} /\ Persist(writes, [register |-> f])
        /\ stage[f] = "prompted"
    BY <1>9 DEF Register, Kept
  <2>2. f # e
    BY <2>1 DEF Holds, LateStages, Announced
  <2>3. entries' \subseteq Ids /\ (e \in entries' => message'[e] = m)
    BY <2>1, <2>2 DEF Holds, Typed
  <2> QED
    BY <1>2, <1>3, <1>5, <2>1, <2>3 DEF Holds
<1>10. CASE WriteEnds
  <2>1. /\ writes # <<>> /\ UNCHANGED entries /\ entries' \subseteq Ids
        /\ disk' = Head(writes).file \/ UNCHANGED disk
    BY <1>10, WriteEndsCases DEF Typed
  <2>2. Knows(disk')
    BY <1>2, <1>3, <2>1
  <2>3. CASE writes' = Tail(writes) /\ UNCHANGED <<tick, message>>
    <3>1. e \in entries' => message'[e] = m
      BY <2>1, <2>3 DEF Holds
    <3> QED
      BY <1>3, <1>5, <2>1, <2>2, <2>3, <3>1 DEF Holds
  <2>4. ASSUME NEW q \in Sessions, NEW step \in Ticks, Goes(q, step, Tail(writes)), step.todo \subseteq tick[q].todo
        PROVE  Goal
    <3>1. e \in step.todo => message[e] = m
      BY <2>4 DEF Goes, Holds
    <3> QED
      BY <1>3, <1>6, <2>1, <2>2, <2>4, <3>1
  <2> QED
    BY <1>10, <2>3, <2>4, WriteEndsCases
<1>11. ASSUME NEW q \in Sessions, LoopBegins(q) PROVE Goal
  <2>1. PICK step \in Ticks : Goes(q, step, writes) /\ \A f \in step.todo : f \in entries
    BY <1>11, LoopBeginsCases
  <2>2. (e \in step.todo => message[e] = m) /\ UNCHANGED disk
    BY <1>11, <2>1, LoopBeginsCases DEF Holds
  <2> QED
    BY <1>2, <1>3, <1>6, <2>1, <2>2
<1>12. ASSUME NEW q \in Sessions, RequestArrives(q) PROVE Goal
  <2>1. tick[q] # Asleep /\ tick' = [tick EXCEPT ![q].phase = "answer"] /\ UNCHANGED <<entries, message, writes, disk>>
    BY <1>12 DEF RequestArrives, TickIn, storage
  <2>2. tick'[q].todo = tick[q].todo /\ \A p \in Sessions : p # q => tick'[p] = tick[p]
    BY <2>1, PhaseType DEF Phases
  <2>3. \A s \in Sessions : tick'[s] # Asleep /\ e \in tick'[s].todo => message'[e] = m
    BY <2>1, <2>2 DEF Holds
  <2> QED
    BY <1>2, <2>1, <2>3 DEF Holds
<1>13. ASSUME NEW q \in Sessions, AnswerArrives(q) PROVE Goal
  <2>1. /\ tick[q] # Asleep /\ tick' = [tick EXCEPT ![q].phase = "removing"] /\ UNCHANGED <<message, disk>>
        /\ entries' \subseteq entries /\ Persist(writes, [tick |-> q])
    BY <1>13 DEF AnswerArrives, TickIn
  <2>2. tick'[q].todo = tick[q].todo /\ \A p \in Sessions : p # q => tick'[p] = tick[p]
    BY <2>1, PhaseType DEF Phases
  <2>3. \A s \in Sessions : tick'[s] # Asleep /\ e \in tick'[s].todo => message'[e] = m
    BY <2>1, <2>2 DEF Holds
  <2>4. entries' \subseteq Ids /\ (e \in entries' => message'[e] = m)
    BY <2>1 DEF Holds, Typed
  <2> QED
    BY <1>2, <1>3, <1>5, <2>1, <2>3, <2>4
<1>14. CASE LateArrives \/ Start
  <2>1. UNCHANGED <<entries, message, tick, writes, disk>>
    BY <1>14 DEF LateArrives, Start, runtime, storage
  <2> QED
    BY <1>2, <2>1 DEF Holds
<1>15. CASE Crash
  BY <1>2, <1>15 DEF Crash
<1>16. CASE Load
  <2>1. /\ entries' = disk.entries /\ message' = disk.message /\ UNCHANGED <<tick, writes, disk>>
        /\ \A q \in Sessions : tick[q] = Asleep
    BY <1>16 DEF Load, storage, Stopped
  <2> QED
    BY <1>2, <2>1
<1> QED
  BY <1>7, <1>8, <1>9, <1>10, <1>11, <1>12, <1>13, <1>14, <1>15, <1>16, StepKinds

\* No request is sent without an id.
LEMMA SendingStep ==
  ASSUME Typed, Looks, Stopped, Sending, [Next]_vars
  PROVE  Sending'
\* The loop of a tick goes on.
<1>1. ASSUME NEW q \in Sessions, NEW step, NEW chain, Goes(q, step, chain), \A f \in step.todo : route[f].session = q
      PROVE  Sending'
  <2>1. step \in Ticks /\ chain \in Seq(Written) /\ NextEntry(q, step, chain) /\ UNCHANGED route
    BY <1>1 DEF Goes
  <2>2. ASSUME NEW s \in Sessions, s # q, TickIn(s, "request")' PROVE message'[At(s)'] # NoMessage
    <3>1. tick'[s] = tick[s]
      BY <2>1, <2>2, NextEntryCases
    <3>2. TickIn(s, "request") /\ At(s)' = At(s)
      BY <2>2, <3>1 DEF TickIn, At
    <3>3. At(s) \in Ids /\ route[At(s)].session = s
      BY <3>2, RequestType DEF Looks, TickIn
    <3>4. message'[At(s)] = message[At(s)]
      BY <1>1, <2>2, <3>3, MintsOwn
    <3> QED
      BY <3>2, <3>4 DEF Sending
  <2>3. ASSUME TickIn(q, "request")' PROVE message'[At(q)'] # NoMessage
    BY <2>1, <2>3, NextEntryCases DEF TickIn, At
  <2> QED
    BY <2>2, <2>3 DEF Sending
<1>2. CASE Calm
  BY <1>2 DEF Calm, Sending, TickIn, At, AtEntry
<1>3. CASE Forgets
  BY <1>3 DEF Forgets, Sending, TickIn, At
<1>4. ASSUME NEW e \in Ids, Register(e) PROVE Sending'
  BY <1>4 DEF Register, Sending, TickIn, At
<1>5. CASE WriteEnds
  <2>1. ASSUME NEW s \in Sessions, NEW step \in Ticks, Goes(s, step, Tail(writes)), step.todo \subseteq tick[s].todo
        PROVE  Sending'
    BY <1>1, <2>1 DEF Goes, Looks
  <2>2. CASE UNCHANGED <<tick, message>>
    BY <2>2 DEF Sending, TickIn, At
  <2> QED
    BY <1>5, <2>1, <2>2, WriteEndsCases
<1>6. ASSUME NEW s \in Sessions, LoopBegins(s) PROVE Sending'
  BY <1>1, <1>6, LoopBeginsCases
<1>7. ASSUME NEW s \in Sessions, RequestArrives(s) \/ AnswerArrives(s) PROVE Sending'
  <2>1. tick[s] # Asleep /\ UNCHANGED message /\ \E phase \in {"answer", "removing"} : tick' = [tick EXCEPT ![s].phase = phase]
    BY <1>7 DEF RequestArrives, AnswerArrives, TickIn
  <2>2. tick'[s].phase \in {"answer", "removing"} /\ \A q \in Sessions : q # s => tick'[q] = tick[q]
    BY <2>1, PhaseType DEF Phases
  <2> QED
    BY <2>1, <2>2 DEF Sending, TickIn, At
<1>8. CASE LateArrives \/ Start
  BY <1>8 DEF LateArrives, Start, runtime, Sending, TickIn, At
<1>9. CASE Crash
  BY <1>9 DEF Crash, Sending, TickIn
<1>10. CASE Load
  BY <1>10 DEF Load, Stopped, Sending, TickIn
<1> QED
  BY <1>2, <1>3, <1>4, <1>5, <1>6, <1>7, <1>8, <1>9, <1>10, StepKinds

\* What OpenCode admits, when every use of the result is under the same id.
LEMMA AdmitOnce ==
  ASSUME Typed, NEW r \in Sent, Admit(r), DeliveredOnce, \A k \in Used(r.id) : k = r.message
  PROVE  /\ DeliveredOnce'
         /\ \A e \in Ids : \A n \in DOMAIN admitted'[e] :
              \/ n \in DOMAIN admitted[e] /\ admitted'[e][n] = admitted[e][n]
              \/ e = r.id /\ admitted'[e][n] = r
<1>1. r.id \in Ids /\ admitted[r.id] \in Seq(Sent) /\ admitted \in [Ids -> Seq(Sent)]
  BY DEF Sent, Typed
<1>2. CASE admitted' = admitted
  BY <1>2 DEF DeliveredOnce
<1>3. CASE admitted' = [admitted EXCEPT ![r.id] = Append(admitted[r.id], r)]
            /\ \A n \in 1 .. Len(admitted[r.id]) : admitted[r.id][n].message # r.message
  <2>1. \A n \in DOMAIN admitted[r.id] : admitted[r.id][n].message \in Used(r.id)
    BY DEF Used
  <2>2. admitted[r.id] = <<>>
    <3>1. DOMAIN admitted[r.id] = 1 .. Len(admitted[r.id]) /\ Len(admitted[r.id]) \in Nat
      BY <1>1
    <3>2. Len(admitted[r.id]) = 0
      BY <1>3, <2>1, <3>1
    <3> QED
      BY <1>1, <3>2
  <2>3. admitted'[r.id] = Append(<<>>, r)
    BY <1>1, <1>3, <2>2
  <2>4. Len(admitted'[r.id]) <= 1 /\ \A n \in DOMAIN admitted'[r.id] : admitted'[r.id][n] = r
    BY <2>3
  <2>5. \A e \in Ids : e # r.id => admitted'[e] = admitted[e]
    BY <1>1, <1>3
  <2> QED
    BY <2>4, <2>5 DEF DeliveredOnce
<1> QED
  BY <1>2, <1>3 DEF Admit

\* A result is sent under no other id than before, or than its request has.
LEMMA UsedStep ==
  ASSUME Typed, Looks, Stopped, Registered, IdsWritten, Sending, OneId, DeliveredOnce, [Next]_vars
  PROVE  /\ DeliveredOnce'
         /\ \A e \in Ids : \A m \in Used(e)' :
              m \in Used(e) \/ \E s \in Sessions : TickIn(s, "request") /\ e = At(s) /\ m = message[At(s)]
<1> DEFINE New(e, m) == \E s \in Sessions : TickIn(s, "request") /\ e = At(s) /\ m = message[At(s)]
           Goal == DeliveredOnce' /\ \A e \in Ids : \A m \in Used(e)' : m \in Used(e) \/ New(e, m)
<1>1. \A e \in Ids : \A m \in Used(e)' :
        \/ \E r \in network' : r.id = e /\ m = r.message
        \/ \E n \in DOMAIN admitted'[e] : m = admitted'[e][n].message
  BY DEF Used
<1>2. \A e \in Ids : /\ \A r \in network : r.id = e => r.message \in Used(e)
                     /\ \A n \in DOMAIN admitted[e] : admitted[e][n].message \in Used(e)
  BY DEF Used
<1>3. \A s \in Sessions : TickIn(s, "request") => RequestOf(s).id = At(s) /\ RequestOf(s).message = message[At(s)]
  BY RequestHolds
\* Requests that may still arrive.
<1>4. ASSUME UNCHANGED admitted,
             \A r \in network' : r \in network \/ \E s \in Sessions : TickIn(s, "request") /\ r = RequestOf(s)
      PROVE  Goal
  <2>1. DeliveredOnce'
    BY <1>4 DEF DeliveredOnce
  <2>2. ASSUME NEW e \in Ids, NEW m \in Used(e)' PROVE m \in Used(e) \/ New(e, m)
    <3>1. CASE \E r \in network' : r.id = e /\ m = r.message
      <4>1. PICK r \in network' : r.id = e /\ m = r.message
        BY <3>1
      <4>2. CASE r \in network
        BY <1>2, <4>1, <4>2
      <4>3. ASSUME NEW s \in Sessions, TickIn(s, "request"), r = RequestOf(s) PROVE New(e, m)
        BY <1>3, <4>1, <4>3
      <4> QED
        BY <1>4, <4>2, <4>3
    <3>2. CASE \E n \in DOMAIN admitted'[e] : m = admitted'[e][n].message
      BY <1>2, <1>4, <3>2
    <3> QED
      BY <1>1, <3>1, <3>2
  <2> QED
    BY <2>1, <2>2
\* A request that arrives.
<1>5. ASSUME NEW r \in Sent, Admit(r), network' \subseteq network, \A k \in Used(r.id) : k = r.message,
             r.message \in Used(r.id) \/ New(r.id, r.message)
      PROVE  Goal
  <2>1. /\ DeliveredOnce'
        /\ \A e \in Ids : \A n \in DOMAIN admitted'[e] :
             \/ n \in DOMAIN admitted[e] /\ admitted'[e][n] = admitted[e][n]
             \/ e = r.id /\ admitted'[e][n] = r
    BY <1>5, AdmitOnce
  <2>2. ASSUME NEW e \in Ids, NEW m \in Used(e)' PROVE m \in Used(e) \/ New(e, m)
    <3> HIDE DEF New
    <3>1. CASE \E q \in network' : q.id = e /\ m = q.message
      BY <1>2, <1>5, <3>1
    <3>2. CASE \E n \in DOMAIN admitted'[e] : m = admitted'[e][n].message
      BY <1>2, <1>5, <2>1, <3>2
    <3> QED
      BY <1>1, <3>1, <3>2
  <2> QED
    BY <2>1, <2>2
<1>6. CASE Calm
  BY <1>4, <1>6 DEF Calm
<1>7. CASE Crash
  BY <1>4, <1>7 DEF Crash
<1>8. ASSUME LateArrives PROVE Goal
  <2>1. PICK r \in network : Admit(r) /\ network' = network \ {r}
    BY <1>8 DEF LateArrives
  <2>2. r \in Sent /\ r.id \in Ids
    BY DEF Typed, Sent
  <2>3. r.message \in Used(r.id)
    BY <1>2, <2>2
  <2>4. \A k \in Used(r.id) : k = r.message
    BY <2>2, <2>3 DEF OneId
  <2> HIDE DEF New, Goal
  <2> QED
    BY <1>5, <2>1, <2>2, <2>3, <2>4
<1>9. ASSUME NEW s \in Sessions, RequestArrives(s) PROVE Goal
  <2>1. TickIn(s, "request") /\ Admit(RequestOf(s)) /\ UNCHANGED network
    BY <1>9 DEF RequestArrives
  <2>2. /\ RequestOf(s) \in Sent /\ RequestOf(s).id = At(s) /\ RequestOf(s).message = message[At(s)]
        /\ \A k \in Used(At(s)) : k = message[At(s)]
    BY <2>1, RequestHolds
  <2>3. New(RequestOf(s).id, RequestOf(s).message)
    BY <2>1, <2>2
  <2> HIDE DEF New, Goal
  <2> QED
    BY <1>5, <2>1, <2>2, <2>3
<1>10. CASE UNCHANGED <<admitted, network>>
  BY <1>4, <1>10
<1>11. CASE Forgets \/ WriteEnds \/ Start \/ Load \/ \E e \in Ids : Register(e)
  <2>1. UNCHANGED <<admitted, network>>
    BY <1>11 DEF Forgets, WriteEnds, Start, Load, Register, inbox
  <2> QED
    BY <1>10, <2>1
<1>12. ASSUME NEW s \in Sessions, LoopBegins(s) \/ AnswerArrives(s) PROVE Goal
  <2>1. UNCHANGED <<admitted, network>>
    BY <1>12 DEF LoopBegins, AnswerArrives, inbox
  <2> QED
    BY <1>10, <2>1
<1> QED
  BY <1>6, <1>7, <1>8, <1>9, <1>11, <1>12, StepKinds

\* No write fails: a result is sent under one id, and delivered once.
LEMMA DeliveryStep ==
  ASSUME ~Happens("writeFails"), DeliveryInv, [Next]_vars, Typed', Looks'
  PROVE  DeliveryInv'
<1> USE DEF DeliveryInv
<1>1. Stopped' /\ Registered' /\ Waiting' /\ IdsWritten' /\ Sending'
  BY StoppedStep, RegisteredStep, WaitingStep, IdsStep, SendingStep
<1>2. DeliveredOnce'
  BY UsedStep
<1>3. ASSUME NEW e \in Ids, NEW m \in Used(e)'
      PROVE  Holds(e, m) /\ (\A k \in Used(e) : k = m)
             /\ (m \in Used(e) \/ \E s \in Sessions : TickIn(s, "request") /\ e = At(s) /\ m = message[e])
  <2>1. CASE m \in Used(e)
    BY <2>1 DEF OneId
  <2>2. ASSUME NEW s \in Sessions, TickIn(s, "request"), e = At(s), m = message[At(s)]
        PROVE  Holds(e, m) /\ \A k \in Used(e) : k = m
    BY <2>2, RequestHolds
  <2> QED
    BY <2>1, <2>2, UsedStep
<1>4. ASSUME NEW e \in Ids, NEW m \in Used(e)' PROVE Holds(e, m)' /\ \A k \in Used(e)' : k = m
  <2>1. Holds(e, m)'
    BY <1>3, <1>4, HoldsStep
  <2>2. ASSUME NEW k \in Used(e)' PROVE k = m
    BY <1>3, <1>4, <2>2
  <2> QED
    BY <2>1, <2>2
<1>5. OneId'
  BY <1>4 DEF OneId
<1> QED
  BY <1>1, <1>2, <1>5

\* The server that has just started has delivered nothing.
LEMMA DeliveryBegins ==
  ASSUME Init, Typed, Looks
  PROVE  DeliveryInv
<1> USE DEF Init
<1>1. Stopped /\ Registered /\ Waiting
  BY DEF Stopped, Registered, Waiting
<1>2. IdsWritten /\ Sending
  BY DEF IdsWritten, IdOf, MintingOf, TickIn, Agrees, Sending, Typed
<1>3. \A e \in Ids : Used(e) = {}
  BY DEF Used
<1>4. OneId /\ DeliveredOnce
  BY <1>3 DEF OneId, DeliveredOnce
<1> QED
  BY <1>1, <1>2, <1>4 DEF DeliveryInv

\* However the server crashes, and requests fail, are tried again or arrive
\* late, a result is delivered once, as long as the file can be written.
THEOREM DeliveredOnceCorrect ==
  ASSUME ~Happens("writeFails")
  PROVE  Spec => []DeliveredOnce
<1>1. Init /\ Typed /\ Looks => DeliveryInv
  BY DeliveryBegins
<1>2. DeliveryInv /\ (Typed /\ Looks)' /\ [Next]_vars => DeliveryInv'
  BY DeliveryStep
<1>3. DeliveryInv => DeliveredOnce
  BY DEF DeliveryInv
<1> QED
  BY <1>1, <1>2, <1>3, TypedCorrect, PTL DEF Spec

-----------------------------------------------------------------------------
(* The exact types *)

\* What counts, or is limited.
Bounded ==
  /\ timers \subseteq Sessions /\ settleChecks \in [Sessions -> 0 .. SETTLE_RECHECKS]
  /\ afterIdle \in [Ids -> 0 .. MaxRuns] /\ turnOf \in [Ids -> 0 .. MaxRuns]
  /\ unstarted \subseteq Ids
  /\ runs \in [Sessions -> 0 .. MaxRuns] /\ records \in [Sessions -> 0 .. MaxRuns]
  /\ crashes \in 0 .. MaxCrashes

\* A run that is answered with has ended.
RunsEnded ==
  /\ \A s \in Sessions : tick[s] # Asleep => tick[s].run <= MaxRuns
  /\ \A r \in network : r.run <= MaxRuns
  /\ \A e \in Ids : \A n \in DOMAIN admitted[e] : admitted[e][n].run <= MaxRuns

\* An id that is known was minted.
Minted ==
  /\ \A e \in Ids : message[e] <= minted /\ disk.message[e] <= minted
  /\ \A n \in DOMAIN writes : \A e \in Ids : writes[n].file.message[e] <= minted
  /\ \A r \in network : r.message <= minted
  /\ \A e \in Ids : \A n \in DOMAIN admitted[e] : admitted[e][n].message <= minted

\* A result is given one id until the server crashes.
Named == {e \in Ids : message[e] # NoMessage}
MintedOnce ==
  /\ minted <= crashes * MaxDispatches + Cardinality(Named)
  /\ server # "up" => Named = {}

TypeInv == Typed /\ Looks /\ Stopped /\ Bounded /\ RunsEnded /\ Minted /\ MintedOnce

\* The loop of a tick arms a timer at most, and counts a recheck.
LEMMA NextEntryBounded ==
  ASSUME Bounded, NEW s \in Sessions, NEW step \in Ticks, NEW chain, NextEntry(s, step, chain)
  PROVE  timers' \subseteq Sessions /\ settleChecks' \in [Sessions -> 0 .. SETTLE_RECHECKS]
<1>1. CASE UNCHANGED <<timers, settleChecks>>
  BY <1>1 DEF Bounded
<1>2. CASE LoopEnds(s, step)
  <2>1. timers' \subseteq Sessions
    BY <1>2 DEF LoopEnds, Arm, Armed, Bounded
  <2>2. SETTLE_RECHECKS \in Nat /\ settleChecks[s] \in 0 .. SETTLE_RECHECKS
    BY DispatchBounds DEF Bounded
  <2>3. CASE settleChecks[s] < SETTLE_RECHECKS /\ settleChecks' = [settleChecks EXCEPT ![s] = settleChecks[s] + 1]
    <3>1. settleChecks[s] + 1 \in 0 .. SETTLE_RECHECKS
      BY <2>2, <2>3
    <3>2. settleChecks \in [Sessions -> 0 .. SETTLE_RECHECKS]
      BY DEF Bounded
    <3> QED
      BY <2>1, <2>3, <3>1, <3>2
  <2>4. CASE settleChecks' = settleChecks \/ settleChecks' = [settleChecks EXCEPT ![s] = 0]
    <3>1. 0 \in 0 .. SETTLE_RECHECKS
      BY <2>2
    <3>2. settleChecks \in [Sessions -> 0 .. SETTLE_RECHECKS]
      BY DEF Bounded
    <3> QED
      BY <2>1, <2>4, <3>1, <3>2
  <2> QED
    BY <1>2, <2>1, <2>3, <2>4 DEF LoopEnds
<1> QED
  BY <1>1, <1>2 DEF NextEntry

\* Timers, rechecks, runs and crashes keep within their limits.
LEMMA BoundedStep ==
  ASSUME Typed, Bounded, [Next]_vars
  PROVE  Bounded'
<1> DEFINE Rest == <<afterIdle, turnOf, unstarted, runs, records, crashes>>
           Delays == timers' \subseteq Sessions /\ settleChecks' \in [Sessions -> 0 .. SETTLE_RECHECKS]
<1>1. MaxRuns \in Nat /\ SETTLE_RECHECKS \in Nat /\ MaxCrashes \in Nat
  BY DispatchBounds
<1>2. ASSUME UNCHANGED Rest, Delays PROVE Bounded'
  BY <1>2 DEF Bounded
<1>3. UNCHANGED <<timers, settleChecks>> => Delays
  BY DEF Bounded
<1>4. \A s \in Sessions : Arm(s) \/ Disarm(s) => timers' \subseteq Sessions
  BY DEF Arm, Armed, Disarm, Bounded
<1>5. 0 \in 0 .. SETTLE_RECHECKS /\ 0 \in 0 .. MaxRuns
  BY <1>1
<1>6. ASSUME NEW e \in Ids, DispatchBegins(e) PROVE Bounded'
  <2>1. route[e].session \in Sessions
    BY DEF Typed
  <2> QED
    BY <1>6, <2>1 DEF DispatchBegins, Bounded, runtime, opencode, history
<1>7. ASSUME NEW e \in Ids, PromptLands(e) PROVE Bounded'
  <2> DEFINE s == route[e].session
  <2>1. s \in Sessions
    BY DEF Typed
  <2>2. runs[s] + 1 \in 0 .. MaxRuns
    BY <1>1, <1>7, <2>1 DEF PromptLands, Bounded
  <2>3. turnOf' \in [Ids -> 0 .. MaxRuns] /\ unstarted' \subseteq Ids
    BY <1>7, <2>2 DEF PromptLands, Bounded
  <2> QED
    BY <1>7, <2>3 DEF PromptLands, Bounded, runtime, history
<1>8. ASSUME NEW e \in Ids, Register(e) PROVE Bounded'
  BY <1>8 DEF Register, Bounded, opencode
<1>9. ASSUME NEW s \in Sessions, TickBegins(s) \/ ReadActivity(s) \/ HearsRunning(s) \/ ReadFails(s)
                                 \/ ReadRecords(s) \/ RequestFails(s)
      PROVE  Bounded'
  <2>1. UNCHANGED Rest /\ UNCHANGED settleChecks
    BY <1>9 DEF TickBegins, ReadActivity, HearsRunning, ReadFails, ReadRecords, RequestFails, dispatch, opencode, history
  <2>2. UNCHANGED timers \/ Arm(s) \/ Disarm(s)
    BY <1>9 DEF TickBegins, ReadActivity, HearsRunning, ReadFails, ReadRecords, RequestFails, RetryLater
  <2> QED
    BY <1>2, <1>4, <2>1, <2>2 DEF Bounded
<1>10. ASSUME NEW s \in Sessions, LoopBegins(s) PROVE Bounded'
  <2>1. PICK step \in Ticks : NextEntry(s, step, writes)
    <3>1. [tick[s] EXCEPT !.todo = {e \in PendingFor(s, entries) : tick[s].deleted \/ HasOutcome(e, tick[s].run)},
                          !.waiting = {e \in PendingFor(s, entries) : tick[s].deleted \/ HasOutcome(e, tick[s].run)}
                                      # PendingFor(s, entries)] \in Ticks
      BY <1>10 DEF LoopBegins, TickIn, Typed, Ticks, PendingFor
    <3> QED
      BY <1>10, <3>1 DEF LoopBegins
  <2>2. UNCHANGED Rest
    BY <1>10 DEF LoopBegins, dispatch, opencode
  <2> QED
    BY <1>2, <2>1, <2>2, NextEntryBounded
<1>11. ASSUME NEW s \in Sessions, RequestArrives(s) \/ AnswerArrives(s) PROVE Bounded'
  BY <1>11 DEF RequestArrives, AnswerArrives, Bounded, dispatch, opencode, history
<1>12. CASE WriteEnds
  <2>1. UNCHANGED Rest /\ Resume(Head(writes).waiter)
    BY <1>12 DEF WriteEnds, opencode
  <2>2. ASSUME NEW e \in Ids, Arm(route[e].session), UNCHANGED settleChecks PROVE Delays
    BY <1>4, <2>2 DEF Bounded, Typed
  <2>3. ASSUME NEW s \in Sessions, TickIn(s, "minting"), NextEntry(s, tick[s], Tail(writes)) PROVE Delays
    BY <2>3, NextEntryBounded DEF TickIn, Typed
  <2>4. ASSUME NEW s \in Sessions, TickIn(s, "removing"),
               NextEntry(s, [tick[s] EXCEPT !.todo = @ \ {Oldest(@)}], Tail(writes))
        PROVE  Delays
    <3>1. [tick[s] EXCEPT !.todo = @ \ {Oldest(@)}] \in Ticks
      BY <2>4 DEF TickIn, Typed, Ticks
    <3> QED
      BY <2>4, <3>1, NextEntryBounded
  <2>5. Delays
    BY <1>3, <2>1, <2>2, <2>3, <2>4 DEF Resume
  <2> QED
    BY <1>2, <2>1, <2>5
<1>13. CASE DeliverEvent
  <2> DEFINE s == Head(events).session
  <2>1. UNCHANGED Rest /\ ProcessPayload(Head(events).type, s)
    BY <1>13 DEF DeliverEvent, dispatch, history
  <2>2. s \in Sessions
    <3>1. Head(events) \in HubEvents
      BY <1>13 DEF DeliverEvent, Typed
    <3> QED
      BY <3>1 DEF HubEvents
  <2>3. timers' \subseteq Sessions
    BY <1>4, <2>1, <2>2 DEF ProcessPayload, Bounded
  <2>4. settleChecks' \in [Sessions -> 0 .. SETTLE_RECHECKS]
    BY <1>5, <2>1, <2>2 DEF ProcessPayload, Bounded
  <2> QED
    BY <1>2, <2>1, <2>3, <2>4
<1>14. CASE Reconnect
  BY <1>14 DEF Reconnect, Watched, Bounded, Typed, storage, dispatch, history
<1>15. CASE Crash
  <2>1. crashes' \in 0 .. MaxCrashes
    BY <1>1, <1>15 DEF Crash, Bounded
  <2> QED
    BY <1>5, <1>15, <2>1 DEF Crash, Bounded
<1>16. CASE Load
  <2>1. disk.entries \subseteq Ids
    BY DEF Typed, Files
  <2> QED
    BY <1>16, <2>1 DEF Load, Bounded, Typed, dispatch, opencode, history
<1>17. CASE LateArrives \/ Start
  BY <1>17 DEF LateArrives, Start, Bounded, runtime, dispatch, opencode, history
<1>18. ASSUME NEW s \in Sessions, RunStarts(s) PROVE Bounded'
  <2>1. runs[s] + 1 \in 0 .. MaxRuns
    BY <1>1, <1>18 DEF RunStarts, Bounded
  <2>2. turnOf' \in [Ids -> 0 .. MaxRuns]
    BY <1>18, <2>1 DEF RunStarts, Bounded
  <2> QED
    BY <1>18, <2>2 DEF RunStarts, Outside, Bounded, runtime, dispatch, history
<1>19. ASSUME NEW s \in Sessions, RunEnds(s) PROVE Bounded'
  <2>1. runs[s] + 1 \in 0 .. MaxRuns
    BY <1>1, <1>19 DEF RunEnds, Bounded
  <2>2. runs' \in [Sessions -> 0 .. MaxRuns] /\ runs'[s] \in 0 .. MaxRuns
    BY <1>19, <2>1 DEF RunEnds, Bounded
  <2>3. records' \in [Sessions -> 0 .. MaxRuns]
    BY <1>19, <2>2 DEF RunEnds, Bounded
  <2> QED
    BY <1>19, <2>2, <2>3 DEF RunEnds, Outside, Bounded, runtime, dispatch, history
<1>20. ASSUME NEW s \in Sessions, RecordLands(s) \/ SessionDeleted(s) PROVE Bounded'
  BY <1>20 DEF RecordLands, SessionDeleted, Outside, Bounded, runtime, dispatch, history
<1>21. CASE UNCHANGED vars
  BY <1>2, <1>3, <1>21 DEF vars, runtime, dispatch, opencode, history
<1> QED
  BY <1>6, <1>7, <1>8, <1>9, <1>10, <1>11, <1>12, <1>13, <1>14, <1>15, <1>16, <1>17, <1>18, <1>19, <1>20, <1>21
     DEF Next, Control, Loop, TickSteps, Hub, Process, OpenCode

\* What a tick has read it keeps, and no tick begins with anything.
LEMMA TickReads ==
  ASSUME Typed, Looks, [Next]_vars, NEW s \in Sessions, tick'[s] # Asleep
  PROVE  \/ tick[s] # Asleep /\ tick'[s].run = tick[s].run /\ tick'[s].deleted = tick[s].deleted
         \/ ReadRecords(s) /\ tick'[s].run = records[s] /\ tick'[s].deleted = (turn[s] = "gone")
         \/ TickBegins(s) /\ tick'[s].run = 0 /\ tick'[s].phase = "activity" /\ tick'[s].todo = {}
<1> DEFINE Goal == \/ tick[s] # Asleep /\ tick'[s].run = tick[s].run /\ tick'[s].deleted = tick[s].deleted
                   \/ ReadRecords(s) /\ tick'[s].run = records[s] /\ tick'[s].deleted = (turn[s] = "gone")
                   \/ TickBegins(s) /\ tick'[s].run = 0 /\ tick'[s].phase = "activity" /\ tick'[s].todo = {}
<1>1. tick \in [Sessions -> {Asleep} \cup Ticks]
  BY DEF Typed
<1>2. CASE tick'[s] = tick[s]
  BY <1>2
<1>3. ASSUME NEW q \in Sessions, NEW rec, tick' = [tick EXCEPT ![q] = rec], q = s => Goal PROVE Goal
  <2>1. q # s => tick'[s] = tick[s]
    BY <1>1, <1>3
  <2> QED
    BY <1>2, <1>3, <2>1
<1>4. ASSUME NEW q \in Sessions, NEW phase, tick[q] # Asleep, tick' = [tick EXCEPT ![q].phase = phase]
      PROVE  Goal
  <2>1. CASE q = s
    <3>1. tick[s] \in Ticks /\ tick'[s] = [tick[s] EXCEPT !.phase = phase]
      BY <1>1, <1>4, <2>1
    <3>2. tick'[s].run = tick[s].run /\ tick'[s].deleted = tick[s].deleted
      BY <3>1 DEF Ticks
    <3> QED
      BY <1>4, <2>1, <3>2
  <2>2. CASE q # s
    BY <1>1, <1>2, <1>4, <2>2
  <2> QED
    BY <2>1, <2>2
<1>5. ASSUME NEW q \in Sessions, TickEnds(q) PROVE Goal
  BY <1>1, <1>2, <1>5 DEF TickEnds
\* The loop of a tick.
<1>6. ASSUME NEW q \in Sessions, NEW step \in Ticks, NEW chain, NextEntry(q, step, chain),
             tick[q] # Asleep, step.run = tick[q].run, step.deleted = tick[q].deleted
      PROVE  Goal
  <2>1. ASSUME NEW phase, tick' = [tick EXCEPT ![q] = [step EXCEPT !.phase = phase]] PROVE Goal
    <3>1. CASE q = s
      <4>1. tick'[s] = [step EXCEPT !.phase = phase]
        BY <1>1, <2>1, <3>1
      <4>2. tick'[s].run = step.run /\ tick'[s].deleted = step.deleted
        BY <4>1 DEF Ticks
      <4> QED
        BY <1>6, <3>1, <4>2
    <3>2. CASE q # s
      BY <1>1, <1>2, <2>1, <3>2
    <3> QED
      BY <3>1, <3>2
  <2>2. LoopEnds(q, step) => Goal
    BY <1>5 DEF LoopEnds
  <2> QED
    BY <1>6, <2>1, <2>2 DEF NextEntry
<1>7. ASSUME NEW q \in Sessions, TickBegins(q) PROVE Goal
  <2>1. CASE q = s /\ PendingFor(s, entries) # {}
    <3>1. tick'[s] = [phase |-> "activity", todo |-> {}, waiting |-> FALSE, run |-> 0, deleted |-> FALSE]
      BY <1>1, <1>7, <2>1 DEF TickBegins
    <3> QED
      BY <1>7, <2>1, <3>1
  <2>2. CASE q # s \/ PendingFor(q, entries) = {}
    BY <1>1, <1>2, <1>7, <2>2 DEF TickBegins
  <2> QED
    BY <2>1, <2>2
<1>8. ASSUME NEW q \in Sessions, ReadActivity(q) \/ HearsRunning(q) \/ ReadFails(q) PROVE Goal
  BY <1>4, <1>5, <1>8 DEF ReadActivity, HearsRunning, ReadFails, RetryLater, TickIn
<1>9. ASSUME NEW q \in Sessions, ReadRecords(q) PROVE Goal
  <2>1. CASE q = s
    <3>1. tick[s] \in Ticks
      BY <1>1, <1>9, <2>1 DEF ReadRecords, TickIn
    <3>2. tick'[s] = [tick[s] EXCEPT !.phase = "loop", !.run = records[s], !.deleted = (turn[s] = "gone")]
      BY <1>1, <1>9, <2>1 DEF ReadRecords
    <3>3. tick'[s].run = records[s] /\ tick'[s].deleted = (turn[s] = "gone")
      BY <3>1, <3>2 DEF Ticks
    <3> QED
      BY <1>9, <2>1, <3>3
  <2>2. CASE q # s
    BY <1>1, <1>2, <1>9, <2>2 DEF ReadRecords
  <2> QED
    BY <2>1, <2>2
<1>10. ASSUME NEW q \in Sessions, LoopBegins(q) PROVE Goal
  <2> DEFINE ready == {e \in PendingFor(q, entries) : tick[q].deleted \/ HasOutcome(e, tick[q].run)}
             step == [tick[q] EXCEPT !.todo = ready, !.waiting = (ready # PendingFor(q, entries))]
  <2>1. tick[q] \in Ticks /\ tick[q] # Asleep /\ ready \subseteq Ids
    BY <1>1, <1>10 DEF LoopBegins, TickIn, PendingFor, Typed
  <2>2. step \in Ticks /\ step.run = tick[q].run /\ step.deleted = tick[q].deleted
    BY <2>1 DEF Ticks
  <2>3. NextEntry(q, step, writes)
    BY <1>10 DEF LoopBegins
  <2> HIDE DEF step
  <2> QED
    BY <1>6, <2>1, <2>2, <2>3
<1>11. ASSUME NEW q \in Sessions, RequestArrives(q) \/ AnswerArrives(q) \/ RequestFails(q) PROVE Goal
  BY <1>4, <1>5, <1>11 DEF RequestArrives, AnswerArrives, RequestFails, RetryLater, TickIn
<1>12. CASE WriteEnds
  <2>1. Resume(Head(writes).waiter)
    BY <1>12 DEF WriteEnds
  <2>2. ASSUME NEW q \in Sessions, TickIn(q, "minting"), NextEntry(q, tick[q], Tail(writes)) PROVE Goal
    <3>1. tick[q] \in Ticks /\ tick[q] # Asleep
      BY <1>1, <2>2 DEF TickIn
    <3> QED
      BY <1>6, <2>2, <3>1
  <2>3. ASSUME NEW q \in Sessions, TickIn(q, "removing"),
               NextEntry(q, [tick[q] EXCEPT !.todo = @ \ {Oldest(@)}], Tail(writes))
        PROVE  Goal
    <3> DEFINE step == [tick[q] EXCEPT !.todo = @ \ {Oldest(@)}]
    <3>1. tick[q] \in Ticks /\ tick[q] # Asleep
      BY <1>1, <2>3 DEF TickIn
    <3>2. step \in Ticks /\ step.run = tick[q].run /\ step.deleted = tick[q].deleted
      BY <3>1 DEF Ticks
    <3> HIDE DEF step
    <3> QED
      BY <1>6, <2>3, <3>1, <3>2 DEF step
  <2> QED
    BY <1>2, <2>1, <2>2, <2>3 DEF Resume
<1>13. CASE UNCHANGED tick
  BY <1>2, <1>13
<1>14. ASSUME Crash PROVE Goal
  BY <1>14 DEF Crash
<1>15. CASE (\E e \in Ids : DispatchBegins(e) \/ PromptLands(e) \/ Register(e)) \/ LateArrives
            \/ DeliverEvent \/ Reconnect \/ Start \/ Load \/ UNCHANGED vars
  BY <1>13, <1>15 DEF DispatchBegins, PromptLands, Register, LateArrives, DeliverEvent, Reconnect, Start, Load,
                      vars, runtime
<1>16. ASSUME NEW q \in Sessions, RunStarts(q) \/ RunEnds(q) \/ RecordLands(q) \/ SessionDeleted(q) PROVE Goal
  <2>1. UNCHANGED tick
    BY <1>16 DEF RunStarts, RunEnds, RecordLands, SessionDeleted, Outside, runtime
  <2> QED
    BY <1>13, <2>1
<1> QED
  BY <1>7, <1>8, <1>9, <1>10, <1>11, <1>12, <1>14, <1>15, <1>16
     DEF Next, Control, Loop, TickSteps, Hub, Process, OpenCode

\* What may arrive or was admitted is a request that a tick has sent.
LEMMA SentFrom ==
  ASSUME Typed, Looks, [Next]_vars
  PROVE  /\ \A r \in network' : r \in network \/ \E s \in Sessions : TickIn(s, "request") /\ r = RequestOf(s)
         /\ \A e \in Ids : \A n \in DOMAIN admitted'[e] :
              \/ n \in DOMAIN admitted[e] /\ admitted'[e][n] = admitted[e][n]
              \/ admitted'[e][n] \in network /\ admitted'[e][n].id = e
              \/ \E s \in Sessions : TickIn(s, "request") /\ admitted'[e][n] = RequestOf(s) /\ e = At(s)
<1>1. ASSUME NEW r \in Sent, Admit(r)
      PROVE  \A e \in Ids : \A n \in DOMAIN admitted'[e] :
               \/ n \in DOMAIN admitted[e] /\ admitted'[e][n] = admitted[e][n]
               \/ admitted'[e][n] = r /\ r.id = e
  <2>1. r.id \in Ids /\ admitted \in [Ids -> Seq(Sent)] /\ admitted[r.id] \in Seq(Sent)
    BY DEF Sent, Typed
  <2>2. CASE admitted' = admitted
    BY <2>2
  <2>3. CASE admitted' = [admitted EXCEPT ![r.id] = Append(admitted[r.id], r)]
    <3>1. admitted'[r.id] = Append(admitted[r.id], r) /\ \A e \in Ids : e # r.id => admitted'[e] = admitted[e]
      BY <2>1, <2>3
    <3>2. \A n \in DOMAIN admitted'[r.id] : \/ n \in DOMAIN admitted[r.id] /\ admitted'[r.id][n] = admitted[r.id][n]
                                            \/ admitted'[r.id][n] = r
      BY <2>1, <3>1
    <3> QED
      BY <2>1, <3>1, <3>2
  <2> QED
    BY <1>1, <2>2, <2>3 DEF Admit
<1>2. CASE Calm
  BY <1>2 DEF Calm
<1>3. CASE Crash
  BY <1>3 DEF Crash
<1>4. CASE Forgets \/ WriteEnds \/ Start \/ Load \/ \E e \in Ids : Register(e)
  BY <1>4 DEF Forgets, WriteEnds, Start, Load, Register, inbox
<1>5. ASSUME NEW s \in Sessions, LoopBegins(s) \/ AnswerArrives(s) PROVE UNCHANGED <<admitted, network>>
  BY <1>5 DEF LoopBegins, AnswerArrives, inbox
<1>6. CASE LateArrives
  <2>1. PICK r \in network : Admit(r) /\ network' = network \ {r}
    BY <1>6 DEF LateArrives
  <2>2. r \in Sent
    BY DEF Typed
  <2> QED
    BY <1>1, <2>1, <2>2
<1>7. ASSUME NEW s \in Sessions, RequestArrives(s)
      PROVE  /\ UNCHANGED network
             /\ \A e \in Ids : \A n \in DOMAIN admitted'[e] :
                  \/ n \in DOMAIN admitted[e] /\ admitted'[e][n] = admitted[e][n]
                  \/ TickIn(s, "request") /\ admitted'[e][n] = RequestOf(s) /\ e = At(s)
  <2>1. TickIn(s, "request") /\ Admit(RequestOf(s)) /\ UNCHANGED network
    BY <1>7 DEF RequestArrives
  <2>2. RequestOf(s) \in Sent /\ RequestOf(s).id = At(s)
    BY <2>1, RequestType DEF RequestOf, At
  <2> QED
    BY <1>1, <2>1, <2>2
<1> QED
  BY <1>2, <1>3, <1>4, <1>5, <1>6, <1>7, StepKinds

\* A file that is written holds what is in memory.
LEMMA WrittenFrom ==
  ASSUME Typed, Looks, [Next]_vars
  PROVE  /\ \A n \in DOMAIN writes' : \/ writes'[n].file = Saved(entries', message')
                                      \/ \E k \in DOMAIN writes : writes'[n] = writes[k]
         /\ disk' = disk \/ \E k \in DOMAIN writes : disk' = writes[k].file
<1> DEFINE Goal == \A n \in DOMAIN writes' : \/ writes'[n].file = Saved(entries', message')
                                             \/ \E k \in DOMAIN writes : writes'[n] = writes[k]
           Same == disk' = disk \/ \E k \in DOMAIN writes : disk' = writes[k].file
<1>1. ASSUME NEW chain, NEW d, After(chain, d), NEW waiter, Persist(chain, waiter) \/ writes' = chain PROVE Goal
  <2>1. chain \in Seq(Written) /\ \A n \in DOMAIN chain : \E k \in DOMAIN writes : chain[n] = writes[k]
    BY <1>1 DEF After
  <2>2. CASE writes' = chain
    BY <2>1, <2>2
  <2>3. CASE Persist(chain, waiter)
    <3> DEFINE w == [file |-> Saved(entries', message'), waiter |-> waiter]
    <3>1. writes' = Append(chain, w)
      BY <2>3 DEF Persist
    <3>2. w.file = Saved(entries', message')
      OBVIOUS
    <3> HIDE DEF w
    <3>3. \A n \in DOMAIN writes' : (n \in DOMAIN chain /\ writes'[n] = chain[n]) \/ writes'[n] = w
      BY <2>1, <3>1
    <3> QED
      BY <2>1, <3>2, <3>3
  <2> QED
    BY <1>1, <2>2, <2>3
<1>2. UNCHANGED writes => Goal
  OBVIOUS
<1>3. UNCHANGED disk => Same
  OBVIOUS
<1> HIDE DEF Goal, Same
<1>4. CASE WriteEnds
  <2>1. writes # <<>> /\ (disk' = Head(writes).file \/ UNCHANGED disk)
    BY <1>4, WriteEndsCases
  <2>2. Same
    BY <2>1, ChainAfter DEF Same
  <2>3. ASSUME writes' = Tail(writes) PROVE Goal
    BY <1>1, <2>1, <2>3, ChainAfter
  <2>4. ASSUME NEW s \in Sessions, NEW step \in Ticks, Goes(s, step, Tail(writes)) PROVE Goal
    <3>1. Persist(Tail(writes), [tick |-> s]) \/ writes' = Tail(writes)
      BY <2>4, NextEntryCases DEF Goes
    <3> QED
      BY <1>1, <2>1, <3>1, ChainAfter
  <2> QED
    BY <1>4, <2>2, <2>3, <2>4, WriteEndsCases DEF Goal, Same
<1>5. CASE Forgets
  BY <1>1, <1>3, <1>5, ChainAfter DEF Forgets, Goal, Same
<1>6. ASSUME NEW e \in Ids, Register(e) PROVE Goal /\ Same
  BY <1>1, <1>3, <1>6, ChainAfter DEF Register
<1>7. ASSUME NEW s \in Sessions, LoopBegins(s) PROVE Goal /\ Same
  <2>1. PICK step \in Ticks : Goes(s, step, writes)
    BY <1>7, LoopBeginsCases
  <2>2. Persist(writes, [tick |-> s]) \/ writes' = writes
    BY <2>1, NextEntryCases DEF Goes
  <2> QED
    BY <1>1, <1>3, <1>7, <2>2, ChainAfter, LoopBeginsCases
<1>8. ASSUME NEW s \in Sessions, AnswerArrives(s) PROVE Goal /\ Same
  BY <1>1, <1>3, <1>8, ChainAfter DEF AnswerArrives
<1>9. ASSUME NEW s \in Sessions, RequestArrives(s) PROVE Goal /\ Same
  BY <1>2, <1>3, <1>9 DEF RequestArrives, storage
<1>10. CASE Calm \/ LateArrives \/ Start \/ Load
  BY <1>2, <1>3, <1>10 DEF Calm, LateArrives, Start, Load, storage, Goal, Same
<1>11. CASE Crash
  BY <1>3, <1>11 DEF Crash, Goal, Same
<1>12. Goal /\ Same
  BY <1>4, <1>5, <1>6, <1>7, <1>8, <1>9, <1>10, <1>11, StepKinds DEF Goal, Same
<1> QED
  BY <1>12 DEF Goal, Same

\* A step of the loop mints an id for a result that has none, or none.
LEMMA MintCases ==
  ASSUME Typed, Looks, Stopped, [Next]_vars
  PROVE  \/ UNCHANGED <<minted, message, crashes>>
         \/ /\ minted' = minted + 1 /\ UNCHANGED <<server, crashes>> /\ server = "up"
            /\ \E e \in Ids : message[e] = NoMessage /\ message' = [message EXCEPT ![e] = minted + 1]
         \/ Crash \/ Load
<1> DEFINE Goal == \/ UNCHANGED <<minted, message, crashes>>
                   \/ /\ minted' = minted + 1 /\ UNCHANGED <<server, crashes>> /\ server = "up"
                      /\ \E e \in Ids : message[e] = NoMessage /\ message' = [message EXCEPT ![e] = minted + 1]
                   \/ Crash \/ Load
<1>1. ASSUME NEW s \in Sessions, NEW step \in Ticks, NEW chain, NextEntry(s, step, chain), tick[s] # Asleep,
             UNCHANGED <<server, crashes>>
      PROVE  Goal
  <2>0. server = "up"
    BY <1>1 DEF Stopped
  <2>1. CASE step.todo # {} /\ minted' = minted + 1 /\ message[Oldest(step.todo)] = NoMessage
             /\ message' = [message EXCEPT ![Oldest(step.todo)] = minted']
    <3>1. Oldest(step.todo) \in Ids
      BY <2>1, OldestIn DEF Ticks
    <3> QED
      BY <1>1, <2>0, <2>1, <3>1
  <2>2. CASE UNCHANGED <<minted, message>>
    BY <1>1, <2>2
  <2> QED
    BY <1>1, <2>1, <2>2 DEF NextEntry
<1>2. CASE \E e \in Ids : DispatchBegins(e) \/ PromptLands(e) \/ Register(e)
  BY <1>2 DEF DispatchBegins, PromptLands, Register, runtime, history
<1>3. ASSUME NEW s \in Sessions, TickBegins(s) \/ ReadActivity(s) \/ HearsRunning(s) \/ ReadFails(s)
                                 \/ ReadRecords(s) \/ RequestArrives(s) \/ AnswerArrives(s) \/ RequestFails(s)
      PROVE  UNCHANGED <<minted, message, crashes>>
  BY <1>3 DEF TickBegins, ReadActivity, HearsRunning, ReadFails, ReadRecords, RequestArrives, AnswerArrives,
              RequestFails, history
<1>4. ASSUME NEW s \in Sessions, LoopBegins(s) PROVE Goal
  <2>1. tick[s] # Asleep /\ \E step \in Ticks : NextEntry(s, step, writes)
    BY <1>4, LoopBeginsCases DEF Goes, LoopBegins, TickIn
  <2> QED
    BY <1>1, <1>4, <2>1 DEF LoopBegins
<1>5. CASE WriteEnds
  <2>1. Resume(Head(writes).waiter) /\ UNCHANGED <<server, crashes>>
    BY <1>5 DEF WriteEnds
  <2>2. ASSUME NEW s \in Sessions, TickIn(s, "minting"), NextEntry(s, tick[s], Tail(writes)) PROVE Goal
    BY <1>1, <2>1, <2>2 DEF TickIn, Typed
  <2>3. ASSUME NEW s \in Sessions, TickIn(s, "removing"),
               NextEntry(s, [tick[s] EXCEPT !.todo = @ \ {Oldest(@)}], Tail(writes))
        PROVE  Goal
    <3>1. tick[s] # Asleep /\ [tick[s] EXCEPT !.todo = @ \ {Oldest(@)}] \in Ticks
      BY <2>3 DEF TickIn, Typed, Ticks
    <3> QED
      BY <1>1, <2>1, <2>3, <3>1
  <2> QED
    BY <2>1, <2>2, <2>3 DEF Resume
<1>6. CASE LateArrives \/ DeliverEvent \/ Reconnect \/ Start \/ UNCHANGED vars
  BY <1>6 DEF LateArrives, DeliverEvent, ProcessPayload, Reconnect, Start, vars, runtime, history
<1>7. ASSUME NEW s \in Sessions, RunStarts(s) \/ RunEnds(s) \/ RecordLands(s) \/ SessionDeleted(s)
      PROVE  UNCHANGED <<minted, message, crashes>>
  BY <1>7 DEF RunStarts, RunEnds, RecordLands, SessionDeleted, Outside, runtime, history
<1> QED
  BY <1>2, <1>3, <1>4, <1>5, <1>6, <1>7 DEF Next, Control, Loop, TickSteps, Hub, Process, OpenCode

\* No run is answered with before it has ended.
LEMMA RunsEndedStep ==
  ASSUME Typed, Looks, Bounded, RunsEnded, [Next]_vars
  PROVE  RunsEnded'
<1> USE DispatchBounds
<1>1. ASSUME NEW s \in Sessions, tick'[s] # Asleep PROVE tick'[s].run <= MaxRuns
  <2>1. records[s] <= MaxRuns /\ 0 <= MaxRuns
    BY DEF Bounded
  <2> QED
    BY <1>1, <2>1, TickReads DEF RunsEnded
<1>2. \A s \in Sessions : TickIn(s, "request") => RequestOf(s).run <= MaxRuns
  BY DEF RequestOf, TickIn, RunsEnded
<1>3. \A r \in network' : r.run <= MaxRuns
  BY <1>2, SentFrom DEF RunsEnded
<1>4. \A e \in Ids : \A n \in DOMAIN admitted'[e] : admitted'[e][n].run <= MaxRuns
  BY <1>2, SentFrom DEF RunsEnded
<1> QED
  BY <1>1, <1>3, <1>4 DEF RunsEnded

\* No id is known before it was minted.
LEMMA MintedStep ==
  ASSUME Typed, Typed', Looks, Stopped, Minted, [Next]_vars
  PROVE  Minted'
<1>1. minted \in Nat /\ minted' \in Nat /\ message \in [Ids -> Nat] /\ message' \in [Ids -> Nat]
  BY DEF Typed
<1>2. minted <= minted' /\ \A e \in Ids : message'[e] <= minted'
  <2>1. CASE UNCHANGED <<minted, message>>
    BY <1>1, <2>1 DEF Minted
  <2>2. CASE Crash
    BY <1>1, <2>2 DEF Crash, NoMessage
  <2>3. CASE Load
    <3>1. UNCHANGED minted /\ message' = disk.message
      BY <2>3 DEF Load, history
    <3> QED
      BY <1>1, <3>1 DEF Minted
  <2>4. ASSUME minted' = minted + 1, NEW f \in Ids, message' = [message EXCEPT ![f] = minted + 1]
        PROVE  minted <= minted' /\ \A e \in Ids : message'[e] <= minted'
    <3>1. \A e \in Ids : message[e] <= minted
      BY DEF Minted
    <3> QED
      BY <1>1, <2>4, <3>1
  <2> QED
    BY <2>1, <2>2, <2>3, <2>4, MintCases
\* Files.
<1>3. \A e \in Ids : Saved(entries', message').message[e] <= minted'
  BY <1>1, <1>2 DEF Saved, NoMessage
<1>4. ASSUME NEW n \in DOMAIN writes, NEW e \in Ids PROVE writes[n].file.message[e] <= minted'
  <2>1. writes[n].file.message[e] \in Nat
    <3>1. writes[n] \in Written
      BY DEF Typed
    <3> QED
      BY <3>1 DEF Written, Files
  <2>2. writes[n].file.message[e] <= minted
    BY DEF Minted
  <2> QED
    BY <1>1, <1>2, <2>1, <2>2
<1>5. \A n \in DOMAIN writes' : \A e \in Ids : writes'[n].file.message[e] <= minted'
  BY <1>3, <1>4, WrittenFrom
<1>6. \A e \in Ids : disk'.message[e] <= minted'
  <2>1. \A e \in Ids : disk.message[e] \in Nat /\ disk.message[e] <= minted
    BY DEF Typed, Files, Minted
  <2>2. \A e \in Ids : disk.message[e] <= minted'
    BY <1>1, <1>2, <2>1
  <2> QED
    BY <1>4, <2>2, WrittenFrom
\* Requests.
<1>7. \A s \in Sessions : TickIn(s, "request") => RequestOf(s).message <= minted'
  <2>1. ASSUME NEW s \in Sessions, TickIn(s, "request") PROVE RequestOf(s).message <= minted'
    <3>1. At(s) \in Ids /\ RequestOf(s).message = message[At(s)]
      BY <2>1, RequestType DEF RequestOf, At
    <3>2. message[At(s)] \in Nat /\ message[At(s)] <= minted
      BY <1>1, <3>1 DEF Minted
    <3> QED
      BY <1>1, <1>2, <3>1, <3>2
  <2> QED
    BY <2>1
<1>8. \A r \in network : r.message <= minted'
  <2>1. \A r \in network : r.message \in Nat /\ r.message <= minted
    BY DEF Minted, Typed, Sent
  <2> QED
    BY <1>1, <1>2, <2>1
<1>9. \A e \in Ids : \A n \in DOMAIN admitted[e] : admitted[e][n].message <= minted'
  <2>1. \A e \in Ids : \A n \in DOMAIN admitted[e] : admitted[e][n] \in Sent
    <3>1. \A e \in Ids : admitted[e] \in Seq(Sent)
      BY DEF Typed
    <3> QED
      BY <3>1
  <2>2. \A e \in Ids : \A n \in DOMAIN admitted[e] : admitted[e][n].message \in Nat /\ admitted[e][n].message <= minted
    BY <2>1 DEF Minted, Sent
  <2> QED
    BY <1>1, <1>2, <2>2
<1>10. \A r \in network' : r.message <= minted'
  BY <1>7, <1>8, SentFrom
<1>11. \A e \in Ids : \A n \in DOMAIN admitted'[e] : admitted'[e][n].message <= minted'
  BY <1>7, <1>8, <1>9, SentFrom
<1> QED
  BY <1>2, <1>5, <1>6, <1>10, <1>11 DEF Minted

\* Between two crashes a result gets one id.
LEMMA MintedOnceStep ==
  ASSUME Typed, Typed', Looks, Stopped, Bounded, Bounded', MintedOnce, [Next]_vars
  PROVE  MintedOnce'
<1> DEFINE Sum(c, n) == c * MaxDispatches + n
<1>1. IsFiniteSet(Ids) /\ Cardinality(Ids) = MaxDispatches /\ MaxDispatches \in Nat
  BY DispatchBounds, FS_Interval DEF Ids
<1>2. /\ IsFiniteSet(Named) /\ Cardinality(Named) \in Nat /\ Cardinality(Named) <= MaxDispatches
      /\ IsFiniteSet(Named') /\ Cardinality(Named') \in Nat
  <2>1. Named \subseteq Ids /\ Named' \subseteq Ids
    BY DEF Named
  <2> QED
    BY <1>1, <2>1, FS_Subset, FS_CardinalityType
<1>3. minted \in Nat /\ crashes \in Nat /\ crashes * MaxDispatches \in Nat
  BY <1>1, DispatchBounds DEF Typed, Bounded
<1>4. CASE UNCHANGED <<minted, message, crashes>>
  <2>1. server' # "up" => server # "up" \/ Crash
    BY StepKinds DEF Calm, Forgets, WriteEnds, LateArrives, Start, Load, Register, LoopBegins, RequestArrives,
                     AnswerArrives, runtime
  <2>2. ~Crash
    BY <1>3, <1>4 DEF Crash, Bounded
  <2> QED
    BY <1>4, <2>1, <2>2 DEF MintedOnce, Named
<1>5. ASSUME minted' = minted + 1, UNCHANGED <<server, crashes>>, server = "up",
             NEW e \in Ids, message[e] = NoMessage, message' = [message EXCEPT ![e] = minted + 1]
      PROVE  MintedOnce'
  <2>1. message \in [Ids -> Nat] /\ minted + 1 # NoMessage
    <3>1. message \in [Ids -> Nat] /\ minted \in Nat
      BY DEF Typed
    <3>2. minted + 1 # 0
      BY <3>1
    <3> QED
      BY <3>1, <3>2 DEF NoMessage
  <2>2. Named' = Named \cup {e} /\ e \notin Named
    BY <1>5, <2>1 DEF Named
  <2>3. Cardinality(Named') = Cardinality(Named) + 1
    BY <1>2, <2>2, FS_AddElement
  <2> QED
    BY <1>2, <1>3, <1>5, <2>3 DEF MintedOnce
<1>6. CASE Crash
  <2>1. crashes' = crashes + 1 /\ UNCHANGED minted
    BY <1>6 DEF Crash
  <2>2. (crashes + 1) * MaxDispatches = crashes * MaxDispatches + MaxDispatches
    BY <1>1, <1>3
  <2>3. Named' = {}
    BY <1>6 DEF Crash, Named
  <2>4. crashes' * MaxDispatches = crashes * MaxDispatches + MaxDispatches
    BY <2>1, <2>2
  <2>5. minted <= crashes * MaxDispatches + MaxDispatches
    BY <1>1, <1>2, <1>3 DEF MintedOnce
  <2>6. minted' <= crashes' * MaxDispatches
    BY <2>1, <2>4, <2>5
  <2>7. minted' <= crashes' * MaxDispatches + Cardinality(Named')
    <3>1. crashes' * MaxDispatches \in Nat /\ minted' \in Nat
      BY <1>1, <1>3, <2>1, <2>4
    <3> QED
      BY <1>2, <2>6, <3>1
  <2> QED
    BY <2>3, <2>7 DEF MintedOnce
<1>7. CASE Load
  <2>1. UNCHANGED <<minted, crashes>> /\ server = "loading" /\ server' = "up"
    BY <1>7 DEF Load, history
  <2>2. Cardinality(Named) = 0
    BY <2>1, FS_EmptySet DEF MintedOnce
  <2> QED
    BY <1>2, <1>3, <2>1, <2>2 DEF MintedOnce
<1> QED
  BY <1>4, <1>5, <1>6, <1>7, MintCases

\* The server that has just started is within its limits.
LEMMA TypeBegins ==
  ASSUME Init, Typed, Looks
  PROVE  TypeInv
<1> USE DispatchBounds DEF Init
<1>1. Stopped
  BY DEF Stopped
<1>2. Bounded
  <2>1. 0 \in 0 .. MaxRuns /\ 0 \in 0 .. SETTLE_RECHECKS /\ 0 \in 0 .. MaxCrashes
    OBVIOUS
  <2> QED
    BY <2>1 DEF Bounded, NotStarted
<1>3. RunsEnded
  BY DEF RunsEnded
<1>4. Minted
  BY DEF Minted, NoMessage
<1>5. Named = {} /\ Cardinality(Named) = 0
  <2>1. Named = {}
    BY DEF Named
  <2> QED
    BY <2>1, FS_EmptySet
<1>6. MintedOnce
  <2>1. minted = 0 /\ crashes = 0 /\ 0 * MaxDispatches = 0
    OBVIOUS
  <2> QED
    BY <1>5, <2>1 DEF MintedOnce
<1> QED
  BY <1>1, <1>2, <1>3, <1>4, <1>6 DEF TypeInv

\* What is within its limits is of its type.
LEMMA TypeFollows ==
  ASSUME TypeInv
  PROVE  TypeOK
<1> USE DEF TypeInv
<1>1. IsFiniteSet(Ids) /\ Cardinality(Ids) = MaxDispatches /\ MaxDispatches \in Nat /\ MaxCrashes \in Nat
  BY DispatchBounds, FS_Interval DEF Ids
<1>2. Cardinality(Named) \in Nat /\ Cardinality(Named) <= MaxDispatches
  <2>1. Named \subseteq Ids
    BY DEF Named
  <2> QED
    BY <1>1, <2>1, FS_Subset, FS_CardinalityType
<1>3. minted <= MaxDispatches * (MaxCrashes + 1) /\ MaxDispatches * (MaxCrashes + 1) \in Nat
  <2>1. crashes \in Nat /\ minted \in Nat /\ crashes <= MaxCrashes
    BY <1>1 DEF Bounded, Typed
  <2>2. PICK d \in Nat : MaxCrashes = crashes + d
    <3>1. MaxCrashes - crashes \in Nat /\ MaxCrashes = crashes + (MaxCrashes - crashes)
      BY <1>1, <2>1
    <3> QED
      BY <3>1
  <2>3. MaxDispatches * (MaxCrashes + 1) = crashes * MaxDispatches + d * MaxDispatches + MaxDispatches
    BY <1>1, <2>1, <2>2
  <2>4. d * MaxDispatches \in Nat /\ crashes * MaxDispatches \in Nat
    BY <1>1, <2>1, <2>2
  <2> QED
    BY <1>1, <1>2, <2>1, <2>3, <2>4 DEF MintedOnce
<1>4. \A m \in Nat : m <= minted => m \in Messages
  <2>1. minted \in Nat
    BY DEF Typed
  <2> QED
    BY <1>3, <2>1 DEF Messages
<1>5. \A f \in [Ids -> Nat] : (\A e \in Ids : f[e] <= minted) => f \in [Ids -> Messages]
  BY <1>4
<1>6. message \in [Ids -> Messages] /\ minted \in Messages
  BY <1>4, <1>5 DEF Minted, Typed
<1>7. disk \in File
  BY <1>5 DEF Minted, Typed, Files, File
<1>8. writes \in Seq([file : File, waiter : Waiters \cup {NoWaiter}])
  <2> DEFINE KeptWrites == [file : File, waiter : Waiters \cup {NoWaiter}]
  <2>1. writes \in Seq(Written)
    BY DEF Typed
  <2>2. ASSUME NEW n \in DOMAIN writes PROVE writes[n] \in KeptWrites
    <3>1. writes[n] \in Written /\ \A e \in Ids : writes[n].file.message[e] <= minted
      BY <2>1 DEF Minted
    <3> QED
      BY <1>5, <3>1 DEF Written, Files, File
  <2> HIDE DEF KeptWrites
  <2>3. writes \in Seq(KeptWrites)
    BY <2>1, <2>2
  <2> QED
    BY <2>3 DEF KeptWrites
<1>9. \A r \in Sent : r.run <= MaxRuns /\ r.message <= minted => r \in Request
  BY <1>4, DispatchBounds DEF Sent, Request
<1>10. network \subseteq Request
  BY <1>9 DEF Typed, RunsEnded, Minted
<1>11. admitted \in [Ids -> Seq(Request)]
  <2>1. admitted \in [Ids -> Seq(Sent)]
    BY DEF Typed
  <2>2. ASSUME NEW e \in Ids PROVE admitted[e] \in Seq(Request)
    <3>1. admitted[e] \in Seq(Sent) /\ \A n \in DOMAIN admitted[e] : admitted[e][n] \in Sent
      BY <2>1
    <3>2. \A n \in DOMAIN admitted[e] : admitted[e][n] \in Request
      BY <1>9, <3>1 DEF RunsEnded, Minted
    <3> QED
      BY <3>1, <3>2
  <2> QED
    BY <2>1, <2>2
<1>12. tick \in [Sessions -> {Asleep} \cup [phase : Phases, todo : SUBSET Ids, waiting : BOOLEAN,
                                           run : 0 .. MaxRuns, deleted : BOOLEAN]]
  <2>1. ASSUME NEW s \in Sessions, tick[s] # Asleep
        PROVE  tick[s] \in [phase : Phases, todo : SUBSET Ids, waiting : BOOLEAN,
                            run : 0 .. MaxRuns, deleted : BOOLEAN]
    <3>1. tick[s] \in Ticks /\ tick[s].run <= MaxRuns
      BY <2>1 DEF Typed, RunsEnded
    <3>2. tick[s].run \in 0 .. MaxRuns
      BY <3>1, DispatchBounds DEF Ticks
    <3> QED
      BY <3>1, <3>2 DEF Ticks
  <2> QED
    BY <2>1 DEF Typed
<1> QED
  BY <1>6, <1>7, <1>8, <1>10, <1>11, <1>12 DEF TypeOK, Typed, Bounded, HubEvents

\* Every reachable state is well typed within the limits, and the ids that are
\* minted are no more than one per result and crash, however often a request is
\* tried again.
THEOREM TypeCorrect == Spec => []TypeOK
<1>1. Init /\ Typed /\ Looks => TypeInv
  BY TypeBegins
<1>2. TypeInv /\ (Typed /\ Looks)' /\ [Next]_vars => TypeInv'
  BY StoppedStep, BoundedStep, RunsEndedStep, MintedStep, MintedOnceStep DEF TypeInv
<1>3. TypeInv => TypeOK
  BY TypeFollows
<1> QED
  BY <1>1, <1>2, <1>3, TypedCorrect, PTL DEF Spec
=============================================================================
