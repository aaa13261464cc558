------------------------ MODULE DispatchPromiseProofs ------------------------
(***************************************************************************)
(* A result that was announced survives a crash at any moment, and the     *)
(* runtime keeps the safety part of ResultPromise: for any sessions,       *)
(* dispatches, limits and faults, as long as writes of the file succeed.   *)
(* And whatever fails, something always looks for a pending result whose   *)
(* turn is over; what is delivered is the answer to the dispatched prompt  *)
(* when records do not trail, runs start at once, and no result is         *)
(* registered while a tick of its session reads.                           *)
(***************************************************************************)
EXTENDS DispatchResultsProofs

-----------------------------------------------------------------------------
(* The inductive invariant *)

KeptIn(items, e) == e \in items \/ Settled(e)

\* A deleted event on its way is true.
DeletedGone == \A n \in DOMAIN events : events[n].type = "deleted" => turn[events[n].session] = "gone"

\* A request that is answered settled its result.
AnsweredSettled == \A s \in Sessions : TickIn(s, "answer") => Settled(At(s))

\* A server that is up remembers what was announced, or is about to be.
InMemory == server = "up" => \A e \in Ids : stage[e] \in Announced => KeptIn(entries, e)

\* Every write that is queued keeps what was announced,
InWrites == \A e \in Ids : stage[e] = "registered" => \A n \in DOMAIN writes : KeptIn(writes[n].file.entries, e)

\* and so does the one that a registration waits for, and every later one.
InLaterWrites ==
  \A e \in Ids : \A n \in DOMAIN writes : writes[n].waiter = [register |-> e] =>
    /\ stage[e] \in Announced
    /\ \A k \in DOMAIN writes : k >= n => KeptIn(writes[k].file.entries, e)

PromiseInv ==
  /\ Typed /\ Looks /\ Stopped
  /\ DeletedGone /\ AnsweredSettled /\ InMemory /\ InWrites /\ InLaterWrites /\ PromiseOnDisk

-----------------------------------------------------------------------------
(* What is settled *)

\* A session stays deleted, what was evicted stays so, and an event that tells
\* of a deletion is preceded by it.
LEMMA DeletedStays ==
  ASSUME Typed, DeletedGone, [Next]_vars
  PROVE  /\ \A s \in Sessions : turn[s] = "gone" => turn'[s] = "gone"
         /\ evicted \subseteq evicted'
         /\ DeletedGone'
<1> DEFINE Goal == /\ \A s \in Sessions : turn[s] = "gone" => turn'[s] = "gone"
                   /\ evicted \subseteq evicted'
                   /\ DeletedGone'
<1>1. CASE UNCHANGED <<turn, events>> /\ evicted \subseteq evicted'
  BY <1>1 DEF DeletedGone
<1>2. ASSUME NEW type \in {"busy", "idle", "deleted"}, NEW q \in Sessions,
             Emit(type, q) \/ UNCHANGED events, type = "deleted" => turn'[q] = "gone",
             \A s \in Sessions : turn[s] = "gone" => turn'[s] = "gone", UNCHANGED evicted
      PROVE  Goal
  <2>1. events \in Seq(HubEvents) /\ \A n \in DOMAIN events : events[n].session \in Sessions
    <3>1. events \in Seq(HubEvents)
      BY DEF Typed
    <3>2. \A n \in DOMAIN events : events[n] \in HubEvents
      BY <3>1
    <3> QED
      BY <3>1, <3>2 DEF HubEvents
  <2>2. CASE UNCHANGED events
    BY <1>2, <2>1, <2>2 DEF DeletedGone
  <2>3. CASE events' = Append(events, [type |-> type, session |-> q])
    <3>1. \A n \in DOMAIN events' : \/ n \in DOMAIN events /\ events'[n] = events[n]
                                    \/ events'[n] = [type |-> type, session |-> q]
      BY <2>1, <2>3
    <3> QED
      BY <1>2, <2>1, <3>1 DEF DeletedGone
  <2> QED
    BY <1>2, <2>2, <2>3 DEF Emit
<1>3. ASSUME NEW e \in Ids, DispatchBegins(e) \/ PromptLands(e) \/ Register(e) PROVE Goal
  <2>1. CASE DispatchBegins(e) \/ Register(e)
    BY <1>1, <2>1 DEF DispatchBegins, Register, opencode, history
  <2>2. CASE PromptLands(e)
    <3>1. route[e].session \in Sessions /\ turn[route[e].session] # "gone"
      BY <2>2 DEF PromptLands, Typed
    <3>2. /\ Emit("busy", route[e].session) \/ UNCHANGED events
          /\ \A s \in Sessions : turn[s] = "gone" => turn'[s] = "gone"
          /\ UNCHANGED evicted
      BY <2>2, <3>1 DEF PromptLands, Typed, history
    <3> QED
      BY <1>2, <3>1, <3>2
  <2> QED
    BY <1>3, <2>1, <2>2
<1>4. ASSUME NEW s \in Sessions, TickBegins(s) \/ TickSteps(s) PROVE Goal
  <2>1. UNCHANGED <<turn, events, evicted>>
    BY <1>4 DEF TickBegins, TickSteps, ReadActivity, HearsRunning, ReadFails, ReadRecords, LoopBegins,
                RequestArrives, AnswerArrives, RequestFails, opencode, history
  <2> QED
    BY <1>1, <2>1
<1>5. CASE WriteEnds \/ LateArrives \/ Start \/ Load
  <2>1. UNCHANGED <<turn, events, evicted>>
    BY <1>5 DEF WriteEnds, LateArrives, Start, Load, opencode, history
  <2> QED
    BY <1>1, <2>1
<1>6. CASE DeliverEvent
  <2>1. events' = Tail(events) /\ events # <<>> /\ UNCHANGED <<turn, evicted>> /\ events \in Seq(HubEvents)
    BY <1>6 DEF DeliverEvent, history, Typed
  <2>2. \A n \in DOMAIN events' : n + 1 \in DOMAIN events /\ events'[n] = events[n + 1]
    BY <2>1
  <2> QED
    BY <2>1, <2>2 DEF DeletedGone
<1>7. CASE Reconnect \/ Crash
  <2>1. events' = <<>> /\ UNCHANGED <<turn, evicted>>
    BY <1>7 DEF Reconnect, Crash, history
  <2> QED
    BY <2>1 DEF DeletedGone
<1>8. ASSUME NEW s \in Sessions, RunStarts(s) \/ RunEnds(s) \/ RecordLands(s) \/ SessionDeleted(s) PROVE Goal
  <2>1. UNCHANGED evicted /\ \A q \in Sessions : turn[q] = "gone" => turn'[q] = "gone"
    BY <1>8 DEF RunStarts, RunEnds, RecordLands, SessionDeleted, Outside, history, Typed
  <2>2. CASE RunStarts(s)
    BY <1>2, <2>1, <2>2 DEF RunStarts
  <2>3. CASE RunEnds(s)
    BY <1>2, <2>1, <2>3 DEF RunEnds
  <2>4. CASE RecordLands(s)
    BY <1>1, <2>1, <2>4 DEF RecordLands
  <2>5. CASE SessionDeleted(s)
    <3>1. turn'[s] = "gone" /\ Emit("deleted", s)
      BY <2>5 DEF SessionDeleted, Typed
    <3> QED
      BY <1>2, <2>1, <3>1
  <2> QED
    BY <1>8, <2>2, <2>3, <2>4, <2>5
<1>9. CASE UNCHANGED vars
  BY <1>1, <1>9 DEF vars, opencode, history
<1> QED
  BY <1>3, <1>4, <1>5, <1>6, <1>7, <1>8, <1>9 DEF Next, Control, Loop, Hub, Process, OpenCode

\* What was given up stays so; only a read of records gives up.
LEMMA ForsakenStays ==
  ASSUME [Next]_vars
  PROVE  forsaken \subseteq forsaken'
<1>1. CASE Control \/ WriteEnds \/ LateArrives \/ Hub \/ Process \/ UNCHANGED vars
  BY <1>1 DEF Control, DispatchBegins, PromptLands, Register, WriteEnds, LateArrives, Hub, DeliverEvent,
     Reconnect, Process, Crash, Start, Load, vars, history
<1>2. CASE Loop
  BY <1>2 DEF Loop, TickBegins, TickSteps, ReadActivity, HearsRunning, ReadFails, ReadRecords, LoopBegins,
     RequestArrives, AnswerArrives, RequestFails, history
<1>3. CASE OpenCode
  BY <1>3 DEF OpenCode, RunStarts, RunEnds, RecordLands, SessionDeleted, Outside, history
<1> QED
  BY <1>1, <1>2, <1>3 DEF Next

\* What OpenCode admitted stays admitted.
LEMMA AdmittedStays ==
  ASSUME Typed, Looks, [Next]_vars
  PROVE  UNCHANGED route /\ \A e \in Ids : admitted[e] # <<>> => admitted'[e] # <<>>
<1>1. ASSUME NEW r \in Sent, Admit(r) PROVE \A e \in Ids : admitted[e] # <<>> => admitted'[e] # <<>>
  <2>1. r.id \in Ids /\ admitted \in [Ids -> Seq(Sent)]
    BY DEF Sent, Typed
  <2>2. Append(admitted[r.id], r) # <<>>
    BY <2>1
  <2> QED
    BY <1>1, <2>1, <2>2 DEF Admit
<1>2. CASE Calm \/ Forgets \/ WriteEnds \/ Crash \/ Start \/ Load \/ \E e \in Ids : Register(e)
  BY <1>2 DEF Calm, Forgets, WriteEnds, Crash, Start, Load, Register, inbox, dispatch
<1>3. ASSUME NEW s \in Sessions, LoopBegins(s) \/ AnswerArrives(s) PROVE UNCHANGED <<route, admitted>>
  BY <1>3 DEF LoopBegins, AnswerArrives, inbox, dispatch
<1>4. CASE LateArrives
  <2>1. PICK r \in network : Admit(r) /\ UNCHANGED route
    BY <1>4 DEF LateArrives, dispatch
  <2>2. r \in Sent
    BY DEF Typed
  <2> QED
    BY <1>1, <2>1, <2>2
<1>5. ASSUME NEW s \in Sessions, RequestArrives(s)
      PROVE  UNCHANGED route /\ \A e \in Ids : admitted[e] # <<>> => admitted'[e] # <<>>
  <2>1. RequestOf(s) \in Sent
    BY <1>5, RequestType DEF RequestArrives
  <2> QED
    BY <1>1, <1>5, <2>1 DEF RequestArrives, dispatch
<1> QED
  BY <1>2, <1>3, <1>4, <1>5, StepKinds

\* What is settled stays so.
LEMMA SettledStays ==
  ASSUME Typed, Looks, DeletedGone, [Next]_vars, NEW e \in Ids, Settled(e)
  PROVE  Settled(e)'
<1>1. route[e].parent \in Sessions
  BY DEF Typed
<1> QED
  BY <1>1, DeletedStays, AdmittedStays DEF Settled

-----------------------------------------------------------------------------
(* Memory *)

\* What a server that is up has forgotten is settled.
LEMMA EntriesKept ==
  ASSUME Typed, Looks, Stopped, DeletedGone, AnsweredSettled, [Next]_vars,
         server = "up", server' = "up", NEW e \in Ids, KeptIn(entries, e)
  PROVE  KeptIn(entries, e)'
<1>1. CASE Settled(e)
  BY <1>1, SettledStays DEF KeptIn
<1>2. CASE e \in entries /\ e \in entries'
  BY <1>2 DEF KeptIn
<1>3. CASE e \in entries /\ e \notin entries'
  <2>1. CASE Forgets
    <3>1. turn[route[e].parent] = "gone"
      BY <1>3, <2>1 DEF Forgets, DeletedGone
    <3>2. Settled(e)
      BY <3>1 DEF Settled
    <3> QED
      BY <3>2, SettledStays DEF KeptIn
  <2>2. ASSUME NEW f \in Ids, Register(f) PROVE KeptIn(entries, e)'
    <3>1. e \in evicted'
      BY <1>3, <2>2 DEF Register
    <3> QED
      BY <3>1 DEF KeptIn, Settled
  <2>3. ASSUME NEW s \in Sessions, AnswerArrives(s) PROVE KeptIn(entries, e)'
    <3>1. e = At(s) /\ TickIn(s, "answer")
      BY <1>3, <2>3 DEF AnswerArrives, At
    <3>2. Settled(e)
      BY <3>1 DEF AnsweredSettled
    <3> QED
      BY <3>2, SettledStays DEF KeptIn
  <2>4. CASE UNCHANGED entries
    BY <1>3, <2>4
  <2>5. CASE Calm \/ WriteEnds \/ LateArrives
    BY <2>4, <2>5 DEF Calm, WriteEnds, LateArrives, runtime
  <2>6. ASSUME NEW s \in Sessions, LoopBegins(s) \/ RequestArrives(s) PROVE KeptIn(entries, e)'
    BY <2>4, <2>6 DEF LoopBegins, RequestArrives
  <2>7. CASE Crash \/ Start \/ Load
    BY <2>7 DEF Crash, Start, Load
  <2> QED
    BY <2>1, <2>2, <2>3, <2>5, <2>6, <2>7, StepKinds
<1> QED
  BY <1>1, <1>2, <1>3 DEF KeptIn

\* How a result comes to be announced.
LEMMA StageCases ==
  ASSUME Typed, Looks, Stopped, [Next]_vars, NEW e \in Ids
  PROVE  /\ stage[e] \in Announced /\ server' = "up" => stage'[e] \in Announced
         /\ stage'[e] \in Announced =>
              \/ stage[e] \in Announced
              \/ Register(e)
              \/ WriteEnds /\ Head(writes).waiter = [register |-> e]
         /\ stage'[e] = "registered" =>
              \/ stage[e] = "registered"
              \/ WriteEnds /\ Head(writes).waiter = [register |-> e]
<1>1. CASE Calm
  BY <1>1 DEF Calm, Announced
<1>2. CASE UNCHANGED stage
  BY <1>2
<1>3. CASE WriteEnds
  <2>1. ASSUME NEW f \in Ids, Head(writes).waiter = [register |-> f], stage' = [stage EXCEPT ![f] = "registered"]
        PROVE  stage'[e] = stage[e] \/ (f = e /\ stage'[e] = "registered")
    BY <2>1 DEF Typed
  <2> QED
    BY <1>2, <1>3, <2>1, WriteEndsCases DEF Announced, Goes
<1>4. ASSUME NEW f \in Ids, Register(f)
      PROVE  stage'[e] = stage[e] \/ (f = e /\ stage'[e] = "registering" /\ stage[e] = "prompted")
  BY <1>4 DEF Register, Typed
<1>5. CASE Forgets \/ LateArrives \/ Start \/ Load
  BY <1>2, <1>5 DEF Forgets, LateArrives, Start, Load, dispatch
<1>6. ASSUME NEW s \in Sessions, LoopBegins(s) \/ RequestArrives(s) \/ AnswerArrives(s) PROVE UNCHANGED stage
  BY <1>6 DEF LoopBegins, RequestArrives, AnswerArrives, dispatch
<1>7. CASE Crash
  BY <1>7 DEF Crash, Announced
<1> QED
  BY <1>1, <1>2, <1>3, <1>4, <1>5, <1>6, <1>7, StepKinds DEF Announced

\* What was announced is remembered.
LEMMA InMemoryStep ==
  ASSUME PromiseInv, [Next]_vars
  PROVE  InMemory'
<1> USE DEF PromiseInv
<1> SUFFICES ASSUME server' = "up", NEW e \in Ids, stage'[e] \in Announced PROVE KeptIn(entries, e)'
  BY DEF InMemory
<1>1. CASE server = "up" /\ stage[e] \in Announced
  BY <1>1, EntriesKept DEF InMemory
<1>2. CASE server # "up"
  <2>1. Load
    <3>1. CASE Calm \/ Forgets \/ WriteEnds \/ LateArrives \/ \E f \in Ids : Register(f)
      BY <1>2, <3>1 DEF Calm, Forgets, WriteEnds, LateArrives, Register, runtime
    <3>2. ASSUME NEW s \in Sessions, LoopBegins(s) \/ RequestArrives(s) \/ AnswerArrives(s) PROVE FALSE
      BY <1>2, <3>2 DEF LoopBegins, RequestArrives, AnswerArrives
    <3>3. CASE Crash \/ Start
      BY <3>3 DEF Crash, Start
    <3> QED
      BY <3>1, <3>2, <3>3, StepKinds
  <2>2. entries' = disk.entries /\ UNCHANGED stage
    BY <2>1 DEF Load, dispatch
  <2>3. stage[e] = "registered"
    BY <1>2, <2>2 DEF Stopped, Announced
  <2>4. e \in disk.entries \/ Settled(e)
    BY <2>3 DEF PromiseOnDisk
  <2> QED
    BY <2>2, <2>4, SettledStays DEF KeptIn
<1>3. CASE Register(e)
  BY <1>3 DEF Register, Kept, KeptIn
<1>4. CASE WriteEnds /\ Head(writes).waiter = [register |-> e]
  <2>1. 1 \in DOMAIN writes /\ writes[1].waiter = [register |-> e]
    BY <1>4, ChainAfter DEF WriteEnds
  <2>2. stage[e] \in Announced
    BY <2>1 DEF InLaterWrites
  <2> QED
    BY <1>1, <1>2, <2>2
<1> QED
  BY <1>1, <1>2, <1>3, <1>4, StageCases

-----------------------------------------------------------------------------
(* Files *)

\* Files that are written or left keep what was announced.
LEMMA ChainKept ==
  ASSUME PromiseInv, [Next]_vars, Stopped', InMemory', entries' \subseteq Ids,
         NEW chain, NEW d, After(chain, d),
         \/ writes' = chain
         \/ \E waiter : Persist(chain, waiter) /\ \A f \in Ids : waiter = [register |-> f] => stage'[f] \in Announced,
         \A f \in Ids : stage'[f] = "registered" =>
           stage[f] = "registered" \/ \A n \in DOMAIN chain : KeptIn(chain[n].file.entries, f)
  PROVE  InWrites' /\ InLaterWrites'
<1> USE DEF PromiseInv
<1>1. chain \in Seq(Written)
  BY DEF After
\* What a file in the chain is.
<1>2. ASSUME NEW n \in DOMAIN writes'
      PROVE  /\ n \in Nat /\ server' = "up"
             /\ \/ n \in DOMAIN chain /\ writes'[n] = chain[n] /\ n < Len(chain) + 1
                \/ /\ n = Len(chain) + 1 /\ writes'[n].file.entries = entries'
                   /\ \A f \in Ids : writes'[n].waiter = [register |-> f] => stage'[f] \in Announced
  <2>1. server' = "up"
    BY <1>2 DEF Stopped
  <2>2. CASE writes' = chain
    BY <1>1, <1>2, <2>1, <2>2
  <2>3. ASSUME NEW waiter, Persist(chain, waiter), \A f \in Ids : waiter = [register |-> f] => stage'[f] \in Announced
        PROVE  /\ n \in Nat
               /\ \/ n \in DOMAIN chain /\ writes'[n] = chain[n] /\ n < Len(chain) + 1
                  \/ /\ n = Len(chain) + 1 /\ writes'[n].file.entries = entries'
                     /\ \A f \in Ids : writes'[n].waiter = [register |-> f] => stage'[f] \in Announced
    BY <1>1, <1>2, <2>3, PersistLast
  <2> QED
    BY <2>1, <2>2, <2>3
\* A file that was kept, and one that is new.
<1>3. ASSUME NEW f \in Ids, NEW file, KeptIn(file.entries, f) PROVE KeptIn(file.entries, f)'
  BY <1>3, SettledStays DEF KeptIn
<1>4. ASSUME NEW f \in Ids, server' = "up", stage'[f] \in Announced PROVE KeptIn(entries, f)'
  BY <1>4 DEF InMemory
<1>5. InWrites'
  <2> SUFFICES ASSUME NEW f \in Ids, stage'[f] = "registered", NEW n \in DOMAIN writes'
               PROVE  KeptIn(writes[n].file.entries, f)'
    BY DEF InWrites
  <2>1. CASE n \in DOMAIN chain /\ writes'[n] = chain[n]
    <3>1. n + d \in DOMAIN writes /\ writes[n + d] = chain[n]
      BY <2>1 DEF After
    <3>2. f \in chain[n].file.entries \/ Settled(f)
      BY <2>1, <3>1 DEF InWrites, KeptIn
    <3>3. Settled(f) => Settled(f)'
      BY SettledStays
    <3> QED
      BY <2>1, <3>2, <3>3 DEF KeptIn
  <2>2. CASE writes'[n].file.entries = entries'
    BY <1>2, <1>4, <2>2 DEF KeptIn, Announced
  <2> QED
    BY <1>2, <2>1, <2>2
<1>6. InLaterWrites'
  <2> SUFFICES ASSUME NEW f \in Ids, NEW n \in DOMAIN writes', writes'[n].waiter = [register |-> f]
               PROVE  /\ stage'[f] \in Announced
                      /\ \A k \in DOMAIN writes' : k >= n => KeptIn(writes[k].file.entries, f)'
    BY DEF InLaterWrites
  <2>1. n \in DOMAIN chain => n + d \in DOMAIN writes /\ writes[n + d] = chain[n] /\ n \in Nat /\ d \in Nat
    BY DEF After
  <2>2. stage'[f] \in Announced
    <3>1. CASE n \in DOMAIN chain /\ writes'[n] = chain[n]
      <4>1. stage[f] \in Announced
        BY <2>1, <3>1 DEF InLaterWrites
      <4> QED
        BY <1>2, <4>1, StageCases
    <3> QED
      BY <1>2, <3>1
  <2>3. ASSUME NEW k \in DOMAIN writes', k >= n PROVE KeptIn(writes[k].file.entries, f)'
    <3>1. CASE k \in DOMAIN chain /\ writes'[k] = chain[k] /\ k < Len(chain) + 1
      <4>1. n \in DOMAIN chain /\ writes'[n] = chain[n]
        BY <1>1, <1>2, <2>3, <3>1
      <4>2. k + d \in DOMAIN writes /\ writes[k + d] = chain[k] /\ k + d >= n + d
        BY <2>1, <2>3, <3>1, <4>1 DEF After
      <4>3. f \in chain[k].file.entries \/ Settled(f)
        BY <2>1, <4>1, <4>2 DEF InLaterWrites, KeptIn
      <4>4. Settled(f) => Settled(f)'
        BY SettledStays
      <4> QED
        BY <3>1, <4>3, <4>4 DEF KeptIn
    <3>2. CASE writes'[k].file.entries = entries'
      BY <1>2, <1>4, <2>2, <2>3, <3>2 DEF KeptIn
    <3> QED
      BY <1>2, <2>3, <3>1, <3>2
  <2> QED
    BY <2>2, <2>3
<1> QED
  BY <1>5, <1>6

\* The writes that are queued keep what was announced.
LEMMA WritesKept ==
  ASSUME PromiseInv, [Next]_vars, Stopped', InMemory'
  PROVE  InWrites' /\ InLaterWrites'
<1> USE DEF PromiseInv
<1> DEFINE Goal == InWrites' /\ InLaterWrites'
           Writes(chain) ==
             \/ writes' = chain
             \/ \E waiter : Persist(chain, waiter) /\ \A f \in Ids : waiter = [register |-> f] => stage'[f] \in Announced
<1>1. After(writes, 0) /\ (writes # <<>> => After(Tail(writes), 1) /\ Head(writes) = writes[1] /\ 1 \in DOMAIN writes)
  BY ChainAfter
<1>2. ASSUME entries' \subseteq Ids, Writes(writes), \A f \in Ids : stage'[f] = "registered" => stage[f] = "registered"
      PROVE  Goal
  BY <1>1, <1>2, ChainKept
<1>3. CASE Calm
  <2>1. \A f \in Ids : stage'[f] = "registered" => stage[f] = "registered"
    BY <1>3 DEF Calm
  <2>2. entries' \subseteq Ids /\ writes' = writes
    BY <1>3 DEF Calm, Typed
  <2> QED
    BY <1>2, <2>1, <2>2
<1>4. CASE Forgets
  <2>1. entries' \subseteq Ids /\ Persist(writes, NoWaiter) /\ UNCHANGED stage
    BY <1>4 DEF Forgets, Typed
  <2>2. \A f \in Ids : NoWaiter # [register |-> f]
    BY DEF NoWaiter
  <2> QED
    BY <1>2, <2>1, <2>2
<1>5. ASSUME NEW e \in Ids, Register(e) PROVE Goal
  <2>1. entries' \subseteq Ids /\ Persist(writes, [register |-> e]) /\ stage' = [stage EXCEPT ![e] = "registering"]
    BY <1>5 DEF Register, Kept, Typed
  <2>2. \A f \in Ids : [register |-> e] = [register |-> f] => f = e
    <3>1. \A f \in Ids : [register |-> f].register = f
      OBVIOUS
    <3> QED
      BY <3>1
  <2>3. \A f \in Ids : /\ [register |-> e] = [register |-> f] => stage'[f] \in Announced
                       /\ stage'[f] = "registered" => stage[f] = "registered"
    BY <2>1, <2>2 DEF Typed, Announced
  <2> QED
    BY <1>2, <2>1, <2>3
<1>6. CASE WriteEnds
  <2>1. writes # <<>> /\ entries' \subseteq Ids
    BY <1>6, WriteEndsCases DEF Typed
  <2>2. Writes(Tail(writes))
    <3>1. ASSUME NEW s \in Sessions, NEW step \in Ticks, Goes(s, step, Tail(writes)) PROVE Writes(Tail(writes))
      <4>1. writes' = Tail(writes) \/ Persist(Tail(writes), [tick |-> s])
        BY <3>1, NextEntryCases DEF Goes
      <4> QED
        BY <4>1, WaitersDiffer
    <3> QED
      BY <1>6, <3>1, WriteEndsCases
  <2>3. ASSUME NEW f \in Ids, stage'[f] = "registered", stage[f] # "registered", NEW n \in DOMAIN Tail(writes)
        PROVE  KeptIn(Tail(writes)[n].file.entries, f)
    <3>1. writes[1].waiter = [register |-> f]
      BY <1>1, <2>1, <2>3, StageCases
    <3>2. n \in Nat \ {0} /\ n + 1 \in DOMAIN writes /\ Tail(writes)[n] = writes[n + 1] /\ n + 1 >= 1
      BY <1>1, <2>1, <2>3 DEF After
    <3> QED
      BY <1>1, <2>1, <3>1, <3>2 DEF InLaterWrites
  <2> QED
    BY <1>1, <2>1, <2>2, <2>3, ChainKept
<1>7. ASSUME NEW s \in Sessions, LoopBegins(s) PROVE Goal
  <2>1. PICK step \in Ticks : Goes(s, step, writes)
    BY <1>7, LoopBeginsCases
  <2>2. (writes' = writes \/ Persist(writes, [tick |-> s])) /\ UNCHANGED stage /\ entries' \subseteq Ids
    BY <2>1, NextEntryCases DEF Goes, Typed
  <2>3. Writes(writes)
    BY <2>2, WaitersDiffer
  <2> QED
    BY <1>2, <2>2, <2>3
<1>8. ASSUME NEW s \in Sessions, RequestArrives(s) PROVE Goal
  <2>1. UNCHANGED <<writes, stage>> /\ entries' \subseteq Ids
    BY <1>8 DEF RequestArrives, storage, dispatch, Typed
  <2> QED
    BY <1>2, <2>1
<1>9. ASSUME NEW s \in Sessions, AnswerArrives(s) PROVE Goal
  <2>1. Persist(writes, [tick |-> s]) /\ UNCHANGED stage /\ entries' \subseteq Ids
    BY <1>9 DEF AnswerArrives, dispatch, Typed
  <2>2. Writes(writes)
    BY <2>1, WaitersDiffer
  <2> QED
    BY <1>2, <2>1, <2>2
<1>10. CASE LateArrives \/ Start
  <2>1. UNCHANGED <<writes, stage>> /\ entries' \subseteq Ids
    BY <1>10 DEF LateArrives, Start, runtime, storage, dispatch, Typed
  <2> QED
    BY <1>2, <2>1
<1>11. CASE Crash
  <2>1. writes' = <<>>
    BY <1>11 DEF Crash
  <2> QED
    BY <2>1 DEF InWrites, InLaterWrites
<1>12. CASE Load
  <2>1. UNCHANGED <<writes, stage>> /\ entries' \subseteq Ids
    BY <1>12 DEF Load, storage, dispatch, Typed, Files
  <2> QED
    BY <1>2, <2>1
<1> QED
  BY <1>3, <1>4, <1>5, <1>6, <1>7, <1>8, <1>9, <1>10, <1>11, <1>12, StepKinds

\* The file keeps what was announced.
LEMMA OnDiskStep ==
  ASSUME ~Happens("writeFails"), PromiseInv, [Next]_vars
  PROVE  PromiseOnDisk'
<1> USE DEF PromiseInv
<1> SUFFICES ASSUME NEW e \in Ids, stage'[e] = "registered" PROVE e \in disk'.entries \/ Settled(e)'
  BY DEF PromiseOnDisk
<1>1. Settled(e) => Settled(e)'
  BY SettledStays
<1>2. CASE WriteEnds
  <2>1. disk' = writes[1].file /\ 1 \in DOMAIN writes /\ Head(writes) = writes[1]
    BY <1>2, ChainAfter, WriteEndsCases
  <2>2. e \in writes[1].file.entries \/ Settled(e)
    <3>1. CASE stage[e] = "registered"
      BY <2>1, <3>1 DEF InWrites, KeptIn
    <3>2. CASE writes[1].waiter = [register |-> e]
      BY <2>1, <3>2 DEF InLaterWrites, KeptIn
    <3> QED
      BY <2>1, <3>1, <3>2, StageCases
  <2> QED
    BY <1>1, <2>1, <2>2
<1>3. CASE ~WriteEnds
  <2>1. stage[e] = "registered"
    BY <1>3, StageCases
  <2>2. disk' = disk
    <3>1. CASE Calm \/ Forgets \/ LateArrives \/ Crash \/ Start \/ Load \/ \E f \in Ids : Register(f)
      BY <3>1 DEF Calm, Forgets, LateArrives, Crash, Start, Load, Register, storage
    <3>2. ASSUME NEW s \in Sessions, LoopBegins(s) \/ RequestArrives(s) \/ AnswerArrives(s) PROVE disk' = disk
      BY <3>2 DEF LoopBegins, RequestArrives, AnswerArrives, storage
    <3> QED
      BY <1>3, <3>1, <3>2, StepKinds
  <2> QED
    BY <1>1, <2>1, <2>2 DEF PromiseOnDisk
<1> QED
  BY <1>2, <1>3

\* OpenCode has admitted what it answers, or has nobody to admit it for.
LEMMA AnsweredStep ==
  ASSUME PromiseInv, [Next]_vars
  PROVE  AnsweredSettled'
<1> USE DEF PromiseInv
<1>1. ASSUME NEW s \in Sessions, tick'[s] = tick[s], TickIn(s, "answer")' PROVE Settled(At(s))'
  <2>1. TickIn(s, "answer") /\ At(s)' = At(s)
    BY <1>1 DEF TickIn, At
  <2>2. At(s) \in Ids /\ Settled(At(s))
    BY <2>1, RequestType DEF AnsweredSettled
  <2> QED
    BY <2>1, <2>2, SettledStays DEF Settled
<1>2. ASSUME NEW q \in Sessions, NEW step, NEW chain, Goes(q, step, chain) PROVE AnsweredSettled'
  <2>1. \A s \in Sessions : s # q => tick'[s] = tick[s]
    BY <1>2, NextEntryCases DEF Goes
  <2>2. ~TickIn(q, "answer")'
    BY <1>2, NextEntryCases DEF Goes, TickIn
  <2> QED
    BY <1>1, <2>1, <2>2 DEF AnsweredSettled
<1>3. CASE UNCHANGED tick
  BY <1>1, <1>3 DEF AnsweredSettled
<1>4. CASE Calm
  <2>1. \A s \in Sessions : tick'[s] = tick[s] \/ ~TickIn(s, "answer")'
    BY <1>4 DEF Calm, TickIn, AtEntry
  <2> QED
    BY <1>1, <2>1 DEF AnsweredSettled
<1>5. CASE WriteEnds
  BY <1>2, <1>3, <1>5, WriteEndsCases
<1>6. CASE Forgets \/ LateArrives \/ Start \/ \E e \in Ids : Register(e)
  BY <1>3, <1>6 DEF Forgets, LateArrives, Start, Register, runtime
<1>7. CASE Crash
  BY <1>7 DEF Crash, AnsweredSettled, TickIn
<1>8. CASE Load
  BY <1>3, <1>8 DEF Load
<1>9. ASSUME NEW s \in Sessions, LoopBegins(s) PROVE AnsweredSettled'
  BY <1>2, <1>9, LoopBeginsCases
<1>10. ASSUME NEW s \in Sessions, AnswerArrives(s) PROVE AnsweredSettled'
  <2>1. tick[s] # Asleep /\ tick' = [tick EXCEPT ![s].phase = "removing"]
    BY <1>10 DEF AnswerArrives, TickIn
  <2>2. tick'[s].phase = "removing" /\ \A q \in Sessions : q # s => tick'[q] = tick[q]
    BY <2>1, PhaseType DEF Phases
  <2> QED
    BY <1>1, <2>2 DEF AnsweredSettled, TickIn
<1>11. ASSUME NEW s \in Sessions, RequestArrives(s) PROVE AnsweredSettled'
  <2> DEFINE r == RequestOf(s)
  <2>1. tick[s] # Asleep /\ tick' = [tick EXCEPT ![s].phase = "answer"] /\ Admit(r) /\ TickIn(s, "request")
        /\ UNCHANGED <<route, turn>>
    BY <1>11 DEF RequestArrives, TickIn, dispatch, opencode
  <2>2. tick'[s].todo = tick[s].todo /\ \A q \in Sessions : q # s => tick'[q] = tick[q]
    BY <2>1, PhaseType DEF Phases
  <2>3. r \in Sent /\ At(s) \in Ids /\ r.id = At(s)
    BY <2>1, RequestType DEF RequestOf, At
  <2>4. admitted[At(s)] \in Seq(Sent)
    BY <2>3 DEF Typed
  <2> HIDE DEF r
  <2>5. Settled(At(s))' => AnsweredSettled'
    BY <1>1, <2>2 DEF AnsweredSettled
  <2>6. CASE turn[route[r.id].parent] = "gone"
    <3>1. At(s)' = At(s) /\ turn[route[At(s)].parent] = "gone"
      BY <2>2, <2>3, <2>6 DEF At
    <3>2. Settled(At(s))'
      BY <2>1, <3>1 DEF Settled
    <3> QED
      BY <2>5, <3>2
  <2>7. CASE \E n \in 1 .. Len(admitted[r.id]) : admitted[r.id][n].message = r.message
    <3>1. admitted[At(s)] # <<>>
      BY <2>3, <2>4, <2>7
    <3>2. Settled(At(s))'
      BY <2>3, <3>1, AdmittedStays, <2>2 DEF Settled, At
    <3> QED
      BY <1>1, <2>2, <3>2 DEF AnsweredSettled
  <2>8. CASE admitted' = [admitted EXCEPT ![r.id] = Append(admitted[r.id], r)]
    <3>1. admitted'[At(s)] = Append(admitted[At(s)], r)
      BY <2>3, <2>8 DEF Typed
    <3>2. admitted'[At(s)] # <<>>
      BY <2>3, <2>4, <3>1
    <3>3. Settled(At(s))'
      BY <2>2, <3>2 DEF Settled, At
    <3> QED
      BY <1>1, <2>2, <3>3 DEF AnsweredSettled
  <2> QED
    BY <2>1, <2>2, <2>6, <2>7, <2>8, <2>5 DEF Admit, Settled, At
<1> QED
  BY <1>4, <1>5, <1>6, <1>7, <1>8, <1>9, <1>10, <1>11, StepKinds

\* No write fails: what was announced survives.
LEMMA PromiseStep ==
  ASSUME ~Happens("writeFails"), PromiseInv, [Next]_vars, Typed', Looks'
  PROVE  PromiseInv'
<1> USE DEF PromiseInv
<1>1. Stopped' /\ InMemory' /\ DeletedGone' /\ AnsweredSettled' /\ PromiseOnDisk'
  BY StoppedStep, InMemoryStep, DeletedStays, AnsweredStep, OnDiskStep
<1>2. InWrites' /\ InLaterWrites'
  BY <1>1, WritesKept
<1> QED
  BY <1>1, <1>2

\* Nothing has been announced when the server has just started.
LEMMA PromiseBegins ==
  ASSUME Init, Typed, Looks
  PROVE  PromiseInv
<1> USE DEF Init
<1>1. DeletedGone /\ AnsweredSettled /\ Stopped
  BY DEF DeletedGone, AnsweredSettled, TickIn, Stopped
<1>2. \A e \in Ids : stage[e] = "new"
  OBVIOUS
<1>3. InMemory /\ InWrites /\ InLaterWrites /\ PromiseOnDisk
  BY <1>2 DEF InMemory, InWrites, InLaterWrites, PromiseOnDisk, Announced
<1> QED
  BY <1>1, <1>3 DEF PromiseInv

\* Once the agent was told that its result is pending, the result is in the file
\* or settled, whatever crashes, is deleted, evicted or fails, as long as the file
\* can be written.
THEOREM PromiseOnDiskCorrect ==
  ASSUME ~Happens("writeFails")
  PROVE  Spec => []PromiseOnDisk
<1>1. Init /\ Typed /\ Looks => PromiseInv
  BY PromiseBegins
<1>2. PromiseInv /\ (Typed /\ Looks)' /\ [Next]_vars => PromiseInv'
  BY PromiseStep
<1>3. PromiseInv => PromiseOnDisk
  BY DEF PromiseInv
<1> QED
  BY <1>1, <1>2, <1>3, TypedCorrect, PTL DEF Spec

-----------------------------------------------------------------------------
(* The runtime implements ResultPromise *)

Promises == {e \in Ids : stage[e] = "registered"}
Answers  == [e \in Ids |-> Len(admitted[e])]
Excused  == evicted \cup forsaken \cup {e \in Ids : turn[route[e].parent] = "gone"}

\* Only the end of a write announces a result.
LEMMA PromisesMade ==
  ASSUME Typed, Looks, Stopped, [Next]_vars
  PROVE  \/ Promises' = Promises
         \/ \E e \in Ids : WriteEnds /\ Promises' = Promises \cup {e}
<1>1. CASE UNCHANGED stage
  BY <1>1 DEF Promises
<1>2. CASE Calm
  <2>1. \A e \in Ids : stage'[e] = "registered" <=> stage[e] = "registered"
    BY <1>2 DEF Calm
  <2> QED
    BY <2>1 DEF Promises
<1>3. CASE WriteEnds
  <2>1. ASSUME NEW f \in Ids, stage' = [stage EXCEPT ![f] = "registered"] PROVE Promises' = Promises \cup {f}
    BY <2>1 DEF Promises, Typed
  <2> QED
    BY <1>1, <1>3, <2>1, WriteEndsCases DEF Goes
<1>4. ASSUME NEW f \in Ids, Register(f) PROVE Promises' = Promises
  <2>1. stage[f] = "prompted" /\ stage' = [stage EXCEPT ![f] = "registering"]
    BY <1>4 DEF Register
  <2>2. \A e \in Ids : stage'[e] = "registered" <=> stage[e] = "registered"
    BY <2>1 DEF Typed
  <2> QED
    BY <2>2 DEF Promises
<1>5. CASE Crash
  <2>1. \A e \in Ids : stage'[e] = "registered" <=> stage[e] = "registered"
    BY <1>5 DEF Crash
  <2> QED
    BY <2>1 DEF Promises
<1>6. CASE Forgets \/ LateArrives \/ Start \/ Load
  BY <1>1, <1>6 DEF Forgets, LateArrives, Start, Load, dispatch
<1>7. ASSUME NEW s \in Sessions, LoopBegins(s) \/ RequestArrives(s) \/ AnswerArrives(s) PROVE UNCHANGED stage
  BY <1>7 DEF LoopBegins, RequestArrives, AnswerArrives, dispatch
<1> QED
  BY <1>1, <1>2, <1>3, <1>4, <1>5, <1>6, <1>7, StepKinds

\* What OpenCode admits is one answer more, and the first.
LEMMA AnswersGiven ==
  ASSUME Typed, NEW r \in Sent, Admit(r), DeliveredOnce'
  PROVE  \/ Answers' = Answers
         \/ \E e \in Ids : Answers[e] = 0 /\ Answers' = [Answers EXCEPT ![e] = 1]
<1>1. r.id \in Ids /\ admitted[r.id] \in Seq(Sent) /\ admitted \in [Ids -> Seq(Sent)]
  BY DEF Sent, Typed
<1>2. CASE admitted' = admitted
  BY <1>2 DEF Answers
<1>3. CASE admitted' = [admitted EXCEPT ![r.id] = Append(admitted[r.id], r)]
  <2>1. Len(admitted'[r.id]) = Len(admitted[r.id]) + 1 /\ Len(admitted[r.id]) \in Nat
    BY <1>1, <1>3
  <2>2. Len(admitted'[r.id]) <= 1
    BY <1>1 DEF DeliveredOnce
  <2>3. Len(admitted[r.id]) = 0 /\ Len(admitted'[r.id]) = 1
    BY <2>1, <2>2
  <2>4. \A e \in Ids : e # r.id => admitted'[e] = admitted[e]
    BY <1>1, <1>3
  <2>5. Answers[r.id] = 0 /\ Answers' = [Answers EXCEPT ![r.id] = 1]
    BY <1>1, <2>3, <2>4 DEF Answers
  <2> QED
    BY <1>1, <2>5
<1> QED
  BY <1>2, <1>3 DEF Admit

\* A step that neither announces nor admits excuses what it may.
LEMMA Excuses ==
  ASSUME Typed, Typed', Looks, DeletedGone, [Next]_vars, UNCHANGED <<Promises, Answers>>
  PROVE  Promised!Next
<1>1. UNCHANGED route /\ \A e \in Ids : route[e].parent \in Sessions
  BY AdmittedStays DEF Typed
<1>2. Excused \subseteq Excused' /\ Excused' \subseteq Ids
  BY <1>1, DeletedStays, ForsakenStays DEF Excused, Typed
<1>3. PICK ds \in SUBSET Ids : Excused' = Excused \cup ds
  BY <1>2
<1>4. Promised!Excuse(ds)
  BY <1>3 DEF Promised!Excuse, Promises, Answers, Excused
<1> QED
  BY <1>4 DEF Promised!Next

\* Every step of the runtime and its surroundings is one of ResultPromise.
LEMMA PromisedStep ==
  ASSUME PromiseInv, [Next]_vars, Typed', DeliveredOnce'
  PROVE  Promised!Next
<1> USE DEF PromiseInv
<1>1. CASE WriteEnds
  <2>1. UNCHANGED <<Answers, Excused>>
    BY <1>1 DEF WriteEnds, inbox, opencode, Answers, Excused
  <2>2. ASSUME NEW e \in Ids, Promises' = Promises \cup {e} PROVE Promised!Promise(e)
    BY <2>1, <2>2 DEF Promised!Promise, Promises, Answers, Excused
  <2> QED
    BY <2>1, <2>2, PromisesMade, Excuses DEF Promised!Next
<1>2. ASSUME NEW r \in Sent, Admit(r), UNCHANGED <<stage, route, turn, evicted, forsaken>> PROVE Promised!Next
  <2>1. UNCHANGED <<Promises, Excused>>
    BY <1>2 DEF Promises, Excused
  <2>2. ASSUME NEW e \in Ids, Answers[e] = 0, Answers' = [Answers EXCEPT ![e] = 1] PROVE Promised!Answer(e)
    BY <2>1, <2>2 DEF Promised!Answer, Promises, Answers, Excused
  <2> QED
    BY <1>2, <2>1, <2>2, AnswersGiven, Excuses DEF Promised!Next
<1>3. CASE LateArrives
  BY <1>2, <1>3 DEF LateArrives, dispatch, opencode, history, Typed
<1>4. ASSUME NEW s \in Sessions, RequestArrives(s) PROVE Promised!Next
  <2>1. RequestOf(s) \in Sent
    BY <1>4, RequestType DEF RequestArrives
  <2> QED
    BY <1>2, <1>4, <2>1 DEF RequestArrives, dispatch, opencode, history
<1>5. CASE UNCHANGED admitted /\ ~WriteEnds
  <2>1. UNCHANGED <<Promises, Answers>>
    BY <1>5, PromisesMade DEF Answers
  <2> QED
    BY <2>1, Excuses
<1>6. CASE Calm \/ Forgets \/ Crash \/ Start \/ Load \/ \E e \in Ids : Register(e)
  BY <1>1, <1>5, <1>6 DEF Calm, Forgets, Crash, Start, Load, Register, inbox
<1>7. ASSUME NEW s \in Sessions, LoopBegins(s) \/ AnswerArrives(s) PROVE UNCHANGED admitted
  BY <1>7 DEF LoopBegins, AnswerArrives, inbox
<1> QED
  BY <1>1, <1>3, <1>4, <1>5, <1>6, <1>7, StepKinds

\* The runtime does nothing that ResultPromise does not allow: a result is
\* answered once, an announcement is not taken back, and neither is an excuse.
THEOREM PromiseSafetyCorrect ==
  ASSUME ~Happens("writeFails")
  PROVE  Spec => Promised!Init /\ [][Promised!Next]_(Promised!vars)
<1>1. Init => Promised!Init
  <2>1. ASSUME Init PROVE Promised!Init
    <3>1. Promises = {} /\ Answers = [e \in Ids |-> 0] /\ evicted = {} /\ forsaken = {}
      BY <2>1 DEF Init, Promises, Answers
    <3>2. \A e \in Ids : turn[route[e].parent] # "gone"
      BY <2>1 DEF Init
    <3> QED
      BY <3>1, <3>2 DEF Promised!Init, Promises, Answers
  <2> QED
    BY <2>1
<1>2. Init /\ Typed /\ Looks => PromiseInv
  BY PromiseBegins
<1>3. PromiseInv /\ (Typed /\ Looks)' /\ [Next]_vars => PromiseInv'
  BY PromiseStep
<1>4. PromiseInv /\ (Typed /\ Looks)' /\ [Next]_vars /\ DeliveredOnce' => [Promised!Next]_(Promised!vars)
  BY PromisedStep
<1>5. Spec => []DeliveredOnce
  BY DeliveredOnceCorrect
<1> QED
  BY <1>1, <1>2, <1>3, <1>4, <1>5, TypedCorrect, PTL DEF Spec

-----------------------------------------------------------------------------
(* Something looks for every result *)

Active == {"running", "subagent"}

\* An event that tells of the end of a turn or of the session.
Coming(s) == \E n \in DOMAIN events : events[n].session = s /\ events[n].type # "busy"

\* A registration whose answer arms the timer.
Registering(s) ==
  \E n \in DOMAIN writes : \E f \in Ids : route[f].session = s /\ writes[n].waiter = [register |-> f]

\* No run has ended since the baseline, and none is under way.
Quiet(e) == turn[route[e].session] = "idle" /\ runs[route[e].session] = afterIdle[e]

Tended(e) == turn[route[e].session] \in Active \/ Quiet(e) \/ Coming(route[e].session)
Looked(e) == route[e].session \in timers \/ Tended(e) \/ Registering(route[e].session)

\* A tick that has still to look at the result, or to look again.
Rechecks(s) == settleChecks[s] < SETTLE_RECHECKS
InLoop(s)   == tick[s] # Asleep /\ tick[s].phase \in AtEntry
Handles(s, e) == e \in tick[s].todo \/ (tick[s].waiting /\ Rechecks(s))
WillLook(e) ==
  LET s == route[e].session IN
  \/ TickIn(s, "activity") \/ TickIn(s, "records")
  \/ TickIn(s, "loop") /\ (tick[s].deleted \/ HasOutcome(e, tick[s].run) \/ Rechecks(s))
  \/ InLoop(s) /\ Handles(s, e)

Attended == server = "up" => \A e \in entries : Looked(e) \/ WillLook(e) \/ e \in forsaken

\* The end of a turn follows its beginning.
Heard ==
  /\ server = "down" => events = <<>>
  /\ \A n \in DOMAIN events : events[n].type = "busy" =>
       \/ turn[events[n].session] \in Active
       \/ \E k \in DOMAIN events : /\ k > n /\ events[k].type # "busy"
                                   /\ events[k].session = events[n].session

\* Records trail the runs, and a baseline trails the records.
Trailing ==
  /\ \A s \in Sessions : records[s] <= runs[s]
  /\ \A e \in Ids : afterIdle[e] <= records[route[e].session]

\* What a tick has removed is gone.
Removed == \A s \in Sessions : TickIn(s, "removing") => At(s) \notin entries

AttendedInv == TypeInv /\ Registered /\ Heard /\ Trailing /\ Removed /\ Attended

\* A hub event joins the others.
LEMMA Emitted ==
  ASSUME Typed, NEW type \in {"busy", "idle", "deleted"}, NEW q \in Sessions, Emit(type, q)
  PROVE  \/ server = "down" /\ UNCHANGED events
         \/ /\ \A n \in DOMAIN events : n \in DOMAIN events' /\ events'[n] = events[n]
            /\ Len(events) + 1 \in DOMAIN events'
            /\ events'[Len(events) + 1] = [type |-> type, session |-> q]
            /\ \A n \in DOMAIN events' : n \in DOMAIN events \/ n = Len(events) + 1
            /\ \A n \in DOMAIN events : n < Len(events) + 1
<1>1. events \in Seq(HubEvents)
  BY DEF Typed
<1> DEFINE event == [type |-> type, session |-> q]
<1>2. ASSUME events' = Append(events, event)
      PROVE  /\ \A n \in DOMAIN events : n \in DOMAIN events' /\ events'[n] = events[n]
             /\ Len(events) + 1 \in DOMAIN events'
             /\ events'[Len(events) + 1] = event
             /\ \A n \in DOMAIN events' : n \in DOMAIN events \/ n = Len(events) + 1
             /\ \A n \in DOMAIN events : n < Len(events) + 1
  <2> HIDE DEF event
  <2> QED
    BY <1>1, <1>2
<1> QED
  BY <1>2 DEF Emit

\* An event that is delivered is the first.
LEMMA Delivered ==
  ASSUME Typed, DeliverEvent
  PROVE  /\ Head(events) = events[1] /\ 1 \in DOMAIN events /\ events[1] \in HubEvents
         /\ \A n \in DOMAIN events : n \in Nat /\ n >= 1 /\ (n > 1 => n - 1 \in DOMAIN events' /\ events'[n - 1] = events[n])
         /\ \A n \in DOMAIN events' : n \in Nat /\ n + 1 \in DOMAIN events /\ events'[n] = events[n + 1]
<1>1. events \in Seq(HubEvents) /\ events # <<>> /\ events' = Tail(events)
  BY DEF Typed, DeliverEvent
<1> QED
  BY <1>1

\* The end of a turn still follows its beginning.
LEMMA HeardStep ==
  ASSUME Typed, Heard, [Next]_vars
  PROVE  Heard'
<1>1. CASE UNCHANGED <<turn, events>> /\ (server' = "down" => server = "down")
  BY <1>1 DEF Heard
\* Something happens to a session, and the hub hears of it.
<1>2. ASSUME NEW type \in {"busy", "idle", "deleted"}, NEW q \in Sessions, Emit(type, q), UNCHANGED server,
             \A s \in Sessions : s # q => turn'[s] = turn[s],
             type = "busy" => turn'[q] \in Active
      PROVE  Heard'
  <2>1. \A n \in DOMAIN events : events[n].session \in Sessions
    <3>1. \A n \in DOMAIN events : events[n] \in HubEvents
      BY DEF Typed
    <3> QED
      BY <3>1 DEF HubEvents
  <2>2. CASE server = "down" /\ UNCHANGED events
    BY <1>2, <2>2 DEF Heard
  <2>3. CASE /\ \A n \in DOMAIN events : n \in DOMAIN events' /\ events'[n] = events[n]
             /\ Len(events) + 1 \in DOMAIN events'
             /\ events'[Len(events) + 1] = [type |-> type, session |-> q]
             /\ \A n \in DOMAIN events' : n \in DOMAIN events \/ n = Len(events) + 1
             /\ \A n \in DOMAIN events : n < Len(events) + 1
    <3> DEFINE last == Len(events) + 1
    <3>1. events'[last].type = type /\ events'[last].session = q
      BY <2>3
    <3> HIDE DEF last
    <3>2. ASSUME NEW n \in DOMAIN events', events'[n].type = "busy"
          PROVE  \/ turn'[events'[n].session] \in Active
                 \/ \E k \in DOMAIN events' : /\ k > n /\ events'[k].type # "busy"
                                              /\ events'[k].session = events'[n].session
      <4>1. CASE n \in DOMAIN events
        <5>1. events'[n] = events[n] /\ n < last /\ last \in DOMAIN events'
          BY <2>3, <4>1 DEF last
        <5>2. CASE \E k \in DOMAIN events : k > n /\ events[k].type # "busy" /\ events[k].session = events[n].session
          BY <2>3, <5>1, <5>2
        <5>3. CASE turn[events[n].session] \in Active
          <6>1. CASE events[n].session # q
            BY <1>2, <2>1, <4>1, <5>1, <5>3, <6>1
          <6>2. CASE events[n].session = q
            <7>1. CASE type = "busy"
              BY <1>2, <5>1, <6>2, <7>1
            <7>2. CASE type # "busy"
              <8>1. n \in Int /\ last \in Int
                BY <4>1 DEF last, Typed
              <8>2. last > n
                BY <5>1, <8>1
              <8> QED
                BY <3>1, <5>1, <6>2, <7>2, <8>2
            <7> QED
              BY <7>1, <7>2
          <6> QED
            BY <6>1, <6>2
        <5> QED
          BY <3>2, <4>1, <5>1, <5>2, <5>3 DEF Heard
      <4>2. CASE n = last
        BY <1>2, <3>1, <3>2, <4>2
      <4> QED
        BY <2>3, <4>1, <4>2 DEF last
    <3>3. server # "down"
      <4>1. events' # <<>>
        BY <2>3
      <4> QED
        BY <1>2, <2>3 DEF Heard, Emit
    <3> QED
      BY <1>2, <3>2, <3>3 DEF Heard
  <2> QED
    BY <1>2, <2>2, <2>3, Emitted
<1>3. ASSUME NEW e \in Ids, DispatchBegins(e) \/ Register(e) PROVE Heard'
  BY <1>1, <1>3 DEF DispatchBegins, Register, runtime, opencode
<1>4. ASSUME NEW e \in Ids, PromptLands(e) PROVE Heard'
  <2> DEFINE q == route[e].session
  <2>1. q \in Sessions /\ UNCHANGED server
    BY <1>4 DEF PromptLands, Typed, runtime
  <2>2. CASE Emit("busy", q) /\ turn' = [turn EXCEPT ![q] = "running"]
    <3>1. turn'[q] \in Active /\ \A s \in Sessions : s # q => turn'[s] = turn[s]
      BY <2>1, <2>2 DEF Typed, Active
    <3> HIDE DEF q
    <3> QED
      BY <1>2, <2>1, <2>2, <3>1
  <2> QED
    BY <1>1, <1>4, <2>1, <2>2 DEF PromptLands
<1>5. ASSUME NEW s \in Sessions, TickBegins(s) \/ TickSteps(s) PROVE Heard'
  <2>1. UNCHANGED <<turn, events, server>>
    BY <1>5 DEF TickBegins, TickSteps, ReadActivity, HearsRunning, ReadFails, ReadRecords, LoopBegins,
                RequestArrives, AnswerArrives, RequestFails, opencode
  <2> QED
    BY <1>1, <2>1
<1>6. CASE WriteEnds \/ LateArrives \/ Load \/ UNCHANGED vars
  <2>1. UNCHANGED <<turn, events>> /\ (UNCHANGED server \/ server' = "up")
    BY <1>6 DEF WriteEnds, LateArrives, Load, vars, runtime, opencode
  <2> QED
    BY <1>1, <2>1
<1>7. CASE Start
  BY <1>1, <1>7 DEF Start, opencode
<1>8. CASE DeliverEvent
  <2>1. UNCHANGED <<turn, server>>
    BY <1>8 DEF DeliverEvent
  <2>2. ASSUME NEW n \in DOMAIN events', events'[n].type = "busy"
        PROVE  \/ turn[events'[n].session] \in Active
               \/ \E k \in DOMAIN events' : /\ k > n /\ events'[k].type # "busy"
                                            /\ events'[k].session = events'[n].session
    <3>1. n \in Nat /\ n + 1 \in DOMAIN events /\ events'[n] = events[n + 1]
      BY <1>8, Delivered
    <3>2. ASSUME NEW k \in DOMAIN events, k > n + 1, events[k].type # "busy", events[k].session = events[n + 1].session
          PROVE  \E j \in DOMAIN events' : /\ j > n /\ events'[j].type # "busy"
                                           /\ events'[j].session = events'[n].session
      <4>1. k \in Nat /\ k > 1 /\ k - 1 > n
        BY <1>8, <3>1, <3>2, Delivered
      <4>2. k - 1 \in DOMAIN events' /\ events'[k - 1] = events[k]
        BY <1>8, <4>1, Delivered
      <4> QED
        BY <3>1, <3>2, <4>1, <4>2
    <3> QED
      BY <2>2, <3>1, <3>2 DEF Heard
  <2>3. server # "down"
    BY <1>8 DEF DeliverEvent, Heard
  <2> QED
    BY <2>1, <2>2, <2>3 DEF Heard
<1>9. CASE Reconnect \/ Crash
  <2>1. events' = <<>>
    BY <1>9 DEF Reconnect, Crash
  <2> QED
    BY <2>1 DEF Heard
<1>10. ASSUME NEW s \in Sessions, RunStarts(s) \/ RunEnds(s) \/ SessionDeleted(s) PROVE Heard'
  <2>1. UNCHANGED server /\ \A q \in Sessions : q # s => turn'[q] = turn[q]
    BY <1>10 DEF RunStarts, RunEnds, SessionDeleted, Outside, runtime, Typed
  <2>2. CASE RunStarts(s)
    <3>1. Emit("busy", s) /\ turn'[s] \in Active
      BY <2>2 DEF RunStarts, Typed, Active
    <3> QED
      BY <1>2, <2>1, <3>1
  <2>3. CASE RunEnds(s) \/ SessionDeleted(s)
    <3>1. Emit("idle", s) \/ Emit("deleted", s)
      BY <2>3 DEF RunEnds, SessionDeleted
    <3> QED
      BY <1>2, <2>1, <3>1
  <2> QED
    BY <1>10, <2>2, <2>3
<1>11. ASSUME NEW s \in Sessions, RecordLands(s) PROVE Heard'
  BY <1>1, <1>11 DEF RecordLands, Outside, runtime
<1> QED
  BY <1>3, <1>4, <1>5, <1>6, <1>7, <1>8, <1>9, <1>10, <1>11 DEF Next, Control, Loop, Hub, Process, OpenCode

\* Records go on trailing the runs, and baselines the records.
LEMMA TrailingStep ==
  ASSUME Typed, Typed', Bounded, Trailing, [Next]_vars
  PROVE  Trailing'
<1>1. /\ runs \in [Sessions -> Nat] /\ records \in [Sessions -> Nat] /\ afterIdle \in [Ids -> Nat]
      /\ \A e \in Ids : route[e].session \in Sessions
  BY DispatchBounds DEF Typed, Bounded
<1>2. CASE UNCHANGED <<runs, records, afterIdle, route>>
  BY <1>2 DEF Trailing
<1>3. ASSUME NEW e \in Ids, DispatchBegins(e) PROVE Trailing'
  <2>1. UNCHANGED <<runs, records, route>> /\ afterIdle' = [afterIdle EXCEPT ![e] = records[route[e].session]]
    BY <1>3 DEF DispatchBegins, opencode
  <2> QED
    BY <1>1, <2>1 DEF Trailing
<1>4. ASSUME NEW s \in Sessions, RunEnds(s) PROVE Trailing'
  <2>1. runs' = [runs EXCEPT ![s] = runs[s] + 1] /\ UNCHANGED <<afterIdle, route>>
    BY <1>4 DEF RunEnds, Outside, dispatch
  <2>2. records' = records \/ records' = [records EXCEPT ![s] = runs'[s]]
    BY <1>4 DEF RunEnds
  <2>3. runs'[s] = runs[s] + 1 /\ \A q \in Sessions : q # s => runs'[q] = runs[q]
    BY <1>1, <2>1
  <2>4. \A q \in Sessions : records[q] <= records'[q] /\ records'[q] <= runs'[q]
    <3>1. \A q \in Sessions : records[q] <= runs[q]
      BY DEF Trailing
    <3>2. \A q \in Sessions : q # s => records'[q] = records[q]
      BY <1>1, <2>2
    <3>3. records'[s] = records[s] \/ records'[s] = runs[s] + 1
      BY <1>1, <2>2, <2>3
    <3> QED
      BY <1>1, <2>3, <3>1, <3>2, <3>3
  <2>5. records' \in [Sessions -> Nat]
    BY DEF Typed
  <2>6. ASSUME NEW e \in Ids PROVE afterIdle[e] <= records'[route[e].session]
    <3>1. afterIdle[e] \in Nat /\ records[route[e].session] \in Nat /\ records'[route[e].session] \in Nat
      BY <1>1, <2>5
    <3>2. afterIdle[e] <= records[route[e].session] /\ records[route[e].session] <= records'[route[e].session]
      BY <1>1, <2>4 DEF Trailing
    <3> QED
      BY <3>1, <3>2
  <2> QED
    BY <2>1, <2>4, <2>6 DEF Trailing
<1>5. ASSUME NEW s \in Sessions, RecordLands(s) PROVE Trailing'
  <2>1. records' = [records EXCEPT ![s] = runs[s]] /\ UNCHANGED <<runs, afterIdle, route>>
    BY <1>5 DEF RecordLands, Outside, dispatch
  <2>2. \A q \in Sessions : records[q] <= records'[q] /\ records'[q] <= runs[q]
    BY <1>1, <2>1 DEF Trailing
  <2>3. ASSUME NEW e \in Ids PROVE afterIdle[e] <= records'[route[e].session]
    <3>1. afterIdle[e] \in Nat /\ records[route[e].session] \in Nat /\ records'[route[e].session] \in Nat
      BY <1>1 DEF Typed
    <3>2. afterIdle[e] <= records[route[e].session] /\ records[route[e].session] <= records'[route[e].session]
      BY <1>1, <2>2 DEF Trailing
    <3> QED
      BY <3>1, <3>2
  <2> QED
    BY <2>1, <2>2, <2>3 DEF Trailing
<1>6. CASE (\E e \in Ids : PromptLands(e) \/ Register(e)) \/ WriteEnds \/ LateArrives \/ DeliverEvent
           \/ Reconnect \/ Crash \/ Start \/ Load \/ UNCHANGED vars
  <2>1. UNCHANGED <<runs, records, afterIdle, route>>
    BY <1>6 DEF PromptLands, Register, WriteEnds, LateArrives, DeliverEvent, Reconnect, Crash, Start, Load, vars,
                dispatch, opencode
  <2> QED
    BY <1>2, <2>1
<1>7. ASSUME NEW s \in Sessions, TickBegins(s) \/ TickSteps(s) \/ RunStarts(s) \/ SessionDeleted(s)
      PROVE  UNCHANGED <<runs, records, afterIdle, route>>
  BY <1>7 DEF TickBegins, TickSteps, ReadActivity, HearsRunning, ReadFails, ReadRecords, LoopBegins,
              RequestArrives, AnswerArrives, RequestFails, RunStarts, SessionDeleted, Outside, dispatch, opencode
<1> QED
  BY <1>2, <1>3, <1>4, <1>5, <1>6, <1>7 DEF Next, Control, Loop, Hub, Process, OpenCode

\* What a tick has removed stays away: a result is registered once.
LEMMA RemovedStep ==
  ASSUME Typed, Looks, Stopped, Registered, Removed, [Next]_vars
  PROVE  Removed'
<1> SUFFICES ASSUME NEW s \in Sessions, TickIn(s, "removing")' PROVE At(s)' \notin entries'
  BY DEF Removed
<1>1. tick'[s] # Asleep /\ tick'[s].phase = "removing" /\ tick \in [Sessions -> {Asleep} \cup Ticks]
  BY DEF TickIn, Typed
<1>2. ASSUME tick'[s] = tick[s], entries' \subseteq entries PROVE At(s)' \notin entries'
  <2>1. TickIn(s, "removing") /\ At(s)' = At(s)
    BY <1>1, <1>2 DEF TickIn, At
  <2> QED
    BY <1>2, <2>1 DEF Removed
<1>3. CASE Calm
  BY <1>1, <1>2, <1>3 DEF Calm, AtEntry
<1>4. ASSUME NEW q \in Sessions, NEW step \in Ticks, NEW chain, Goes(q, step, chain) PROVE At(s)' \notin entries'
  <2>1. tick'[q] # Asleep => tick'[q].phase \in {"minting", "request"}
    BY <1>4, NextEntryCases DEF Goes
  <2>2. q # s
    BY <1>1, <2>1
  <2>3. tick'[s] = tick[s] /\ entries' = entries
    BY <1>4, <2>2, NextEntryCases DEF Goes
  <2> QED
    BY <1>2, <2>3
<1>5. CASE WriteEnds
  BY <1>2, <1>4, <1>5, WriteEndsCases
<1>6. ASSUME NEW e \in Ids, Register(e) PROVE At(s)' \notin entries'
  <2>1. UNCHANGED tick /\ entries' \subseteq entries \cup {e} /\ stage[e] = "prompted"
    BY <1>6 DEF Register, Kept
  <2>2. TickIn(s, "removing") /\ At(s)' = At(s)
    BY <2>1 DEF TickIn, At
  <2>3. At(s) \in tick[s].todo
    BY <1>1, <2>1, <2>2, OldestIn DEF At, Looks, AtEntry, TickIn, Ticks
  <2>4. stage[At(s)] \in LateStages
    BY <2>2, <2>3 DEF Registered, TickIn
  <2> QED
    BY <2>1, <2>2, <2>4 DEF Removed, LateStages, Announced
<1>7. CASE Forgets \/ LateArrives
  BY <1>2, <1>7 DEF Forgets, LateArrives, runtime
<1>8. CASE Crash
  BY <1>1, <1>8 DEF Crash
<1>9. CASE Start \/ Load
  <2>1. tick'[s] = Asleep
    BY <1>9 DEF Start, Load, Stopped
  <2> QED
    BY <1>1, <2>1
<1>10. ASSUME NEW q \in Sessions, LoopBegins(q) PROVE At(s)' \notin entries'
  BY <1>4, <1>10, LoopBeginsCases
<1>11. ASSUME NEW q \in Sessions, RequestArrives(q) PROVE At(s)' \notin entries'
  <2>1. tick[q] # Asleep /\ tick' = [tick EXCEPT ![q].phase = "answer"] /\ UNCHANGED entries
    BY <1>11 DEF RequestArrives, TickIn
  <2>2. tick'[q].phase = "answer" /\ \A p \in Sessions : p # q => tick'[p] = tick[p]
    BY <2>1, PhaseType DEF Phases
  <2> QED
    BY <1>1, <1>2, <2>1, <2>2
<1>12. ASSUME NEW q \in Sessions, AnswerArrives(q) PROVE At(s)' \notin entries'
  <2>1. tick[q] # Asleep /\ tick' = [tick EXCEPT ![q].phase = "removing"] /\ entries' = entries \ {At(q)}
    BY <1>12 DEF AnswerArrives, TickIn, At
  <2>2. tick'[q].todo = tick[q].todo /\ \A p \in Sessions : p # q => tick'[p] = tick[p]
    BY <2>1, PhaseType DEF Phases
  <2>3. CASE q = s
    BY <2>1, <2>2, <2>3 DEF At
  <2>4. CASE q # s
    BY <1>2, <2>1, <2>2, <2>4
  <2> QED
    BY <2>3, <2>4
<1> QED
  BY <1>3, <1>5, <1>6, <1>7, <1>8, <1>9, <1>10, <1>11, <1>12, StepKinds

\* Timers are taken by their tick and by the beginning of a turn.
LEMMA TimersKept ==
  ASSUME server = "up", server' = "up", [Next]_vars, NEW s \in timers
  PROVE  s \in timers' \/ TickBegins(s) \/ (DeliverEvent /\ Head(events).type = "busy" /\ Head(events).session = s)
<1>1. \A q \in Sessions : Arm(q) => s \in timers'
  BY DEF Arm, Armed
<1>2. ASSUME NEW q \in Sessions, NEW step, NEW chain, NextEntry(q, step, chain) PROVE s \in timers'
  BY <1>1, <1>2 DEF NextEntry, LoopEnds
<1>3. ASSUME NEW q \in Sessions, TickBegins(q) \/ TickSteps(q) PROVE s \in timers' \/ TickBegins(s)
  <2>1. CASE TickBegins(q)
    BY <2>1 DEF TickBegins, Disarm
  <2>2. CASE LoopBegins(q)
    BY <1>2, <2>2 DEF LoopBegins
  <2>3. CASE ReadActivity(q) \/ ReadFails(q) \/ RequestFails(q)
    BY <1>1, <2>3 DEF ReadActivity, ReadFails, RequestFails, RetryLater
  <2>4. CASE HearsRunning(q) \/ ReadRecords(q) \/ RequestArrives(q) \/ AnswerArrives(q)
    BY <2>4 DEF HearsRunning, ReadRecords, RequestArrives, AnswerArrives
  <2> QED
    BY <1>3, <2>1, <2>2, <2>3, <2>4 DEF TickSteps
<1>4. CASE WriteEnds
  <2>1. Resume(Head(writes).waiter)
    BY <1>4 DEF WriteEnds
  <2>2. \A e \in Ids : Arm(route[e].session) => s \in timers'
    BY DEF Arm, Armed
  <2> QED
    BY <1>2, <2>1, <2>2 DEF Resume
<1>5. CASE DeliverEvent
  <2>1. ProcessPayload(Head(events).type, Head(events).session)
    BY <1>5 DEF DeliverEvent
  <2> QED
    BY <1>5, <2>1 DEF ProcessPayload, Arm, Armed
<1>6. CASE (\E e \in Ids : DispatchBegins(e) \/ PromptLands(e) \/ Register(e)) \/ LateArrives \/ Reconnect
           \/ Crash \/ Start \/ Load \/ UNCHANGED vars
  BY <1>6 DEF DispatchBegins, PromptLands, Register, LateArrives, Reconnect, Crash, Start, Load, vars, runtime
<1>7. ASSUME NEW q \in Sessions, RunStarts(q) \/ RunEnds(q) \/ RecordLands(q) \/ SessionDeleted(q)
      PROVE  s \in timers'
  BY <1>7 DEF RunStarts, RunEnds, RecordLands, SessionDeleted, Outside, runtime
<1> QED
  BY <1>3, <1>4, <1>5, <1>6, <1>7 DEF Next, Control, Loop, Hub, Process, OpenCode

\* A result that is pending was dispatched before.
LEMMA BaselineKept ==
  ASSUME Typed, Registered, [Next]_vars, NEW e \in entries
  PROVE  UNCHANGED afterIdle \/ afterIdle'[e] = afterIdle[e]
<1>1. ASSUME NEW f \in Ids, DispatchBegins(f) PROVE afterIdle'[e] = afterIdle[e]
  <2>1. stage[f] = "new" /\ stage[e] \in LateStages
    BY <1>1 DEF DispatchBegins, Registered
  <2>2. e # f
    BY <2>1 DEF LateStages, Announced
  <2> QED
    BY <1>1, <2>2 DEF DispatchBegins
<1>2. ASSUME NEW f \in Ids, PromptLands(f) \/ Register(f) PROVE UNCHANGED afterIdle
  BY <1>2 DEF PromptLands, Register
<1>3. ASSUME NEW s \in Sessions, TickBegins(s) \/ TickSteps(s) \/ RunStarts(s) \/ RunEnds(s) \/ RecordLands(s)
                                 \/ SessionDeleted(s)
      PROVE  UNCHANGED afterIdle
  BY <1>3 DEF TickBegins, TickSteps, ReadActivity, HearsRunning, ReadFails, ReadRecords, LoopBegins,
              RequestArrives, AnswerArrives, RequestFails, RunStarts, RunEnds, RecordLands, SessionDeleted,
              Outside, dispatch
<1>4. CASE WriteEnds \/ LateArrives \/ DeliverEvent \/ Reconnect \/ Crash \/ Start \/ Load \/ UNCHANGED vars
  BY <1>4 DEF WriteEnds, LateArrives, DeliverEvent, Reconnect, Crash, Start, Load, vars, dispatch
<1> QED
  BY <1>1, <1>2, <1>3, <1>4 DEF Next, Control, Loop, Hub, Process, OpenCode

\* While its turn lasts, its session is quiet or the end of the turn is on its
\* way, a result stays so, or its timer is armed.
LEMMA TendedStep ==
  ASSUME Typed, Looks, Registered, [Next]_vars, server = "up", server' = "up",
         NEW e \in entries, e \in entries', Tended(e)
  PROVE  Tended(e)' \/ route[e].session \in timers'
<1>0. PICK s \in Sessions : s = route[e].session
  BY DEF Typed
<1>1. /\ s \in Sessions /\ e \in Ids /\ UNCHANGED route /\ afterIdle'[e] = afterIdle[e]
      /\ turn \in [Sessions -> {"idle", "running", "subagent", "gone"}]
  <2>1. afterIdle'[e] = afterIdle[e]
    BY BaselineKept
  <2> QED
    BY <1>0, <2>1, AdmittedStays DEF Typed
<1>2. turn[s] \in Active \/ (turn[s] = "idle" /\ runs[s] = afterIdle[e]) \/ Coming(s)
  BY <1>0 DEF Tended, Quiet
<1>3. ASSUME \/ turn'[s] \in Active
             \/ turn'[s] = "idle" /\ runs'[s] = afterIdle[e]
             \/ Coming(s)'
      PROVE  Tended(e)'
  BY <1>0, <1>1, <1>3 DEF Tended, Quiet
<1>4. ASSUME UNCHANGED <<turn, runs, events>> PROVE Tended(e)'
  BY <1>2, <1>3, <1>4 DEF Coming
\* OpenCode tells of what happens to a session.
<1>5. ASSUME NEW type \in {"busy", "idle", "deleted"}, NEW q \in Sessions, Emit(type, q)
      PROVE  (Coming(s) => Coming(s)') /\ (type # "busy" => Coming(q)')
  <2>1. /\ \A n \in DOMAIN events : n \in DOMAIN events' /\ events'[n] = events[n]
        /\ Len(events) + 1 \in DOMAIN events'
        /\ events'[Len(events) + 1] = [type |-> type, session |-> q]
    BY <1>5, Emitted
  <2>2. Coming(s) => Coming(s)'
    BY <2>1 DEF Coming
  <2>3. events'[Len(events) + 1].type = type /\ events'[Len(events) + 1].session = q
    BY <2>1
  <2> QED
    BY <2>1, <2>2, <2>3 DEF Coming
<1>6. ASSUME NEW f \in Ids, DispatchBegins(f) \/ Register(f) PROVE Tended(e)'
  BY <1>4, <1>6 DEF DispatchBegins, Register, opencode
<1>7. ASSUME NEW f \in Ids, PromptLands(f) PROVE Tended(e)'
  <2> DEFINE q == route[f].session
  <2>1. q \in Sessions /\ UNCHANGED runs
    BY <1>7 DEF PromptLands, Typed
  <2>2. CASE Emit("busy", q) /\ turn' = [turn EXCEPT ![q] = "running"]
    <3>1. (Coming(s) => Coming(s)') /\ turn'[q] \in Active /\ (s # q => turn'[s] = turn[s])
      BY <1>1, <1>5, <2>1, <2>2 DEF Active
    <3> HIDE DEF q
    <3> QED
      BY <1>2, <1>3, <2>1, <3>1
  <2> QED
    BY <1>4, <1>7, <2>1, <2>2 DEF PromptLands
<1>8. ASSUME NEW q \in Sessions, TickBegins(q) \/ TickSteps(q) PROVE Tended(e)'
  <2>1. UNCHANGED <<turn, runs, events>>
    BY <1>8 DEF TickBegins, TickSteps, ReadActivity, HearsRunning, ReadFails, ReadRecords, LoopBegins,
                RequestArrives, AnswerArrives, RequestFails, opencode
  <2> QED
    BY <1>4, <2>1
<1>9. CASE WriteEnds \/ LateArrives \/ Crash \/ Start \/ Load \/ UNCHANGED vars
  <2>1. UNCHANGED <<turn, runs, events>>
    BY <1>9 DEF WriteEnds, LateArrives, Crash, Start, Load, vars, opencode
  <2> QED
    BY <1>4, <2>1
<1>10. ASSUME DeliverEvent PROVE Tended(e)' \/ s \in timers'
  <2>1. UNCHANGED <<turn, runs>>
    BY <1>10 DEF DeliverEvent
  <2>2. ASSUME NEW n \in DOMAIN events, events[n].session = s, events[n].type # "busy"
        PROVE  Coming(s)' \/ s \in timers'
    <3>1. CASE n = 1
      <4>1. events[1] = Head(events) /\ events[1] \in HubEvents
        BY <1>10, Delivered
      <4>2. Head(events).type \in {"idle", "deleted"} /\ Head(events).session = s
        BY <2>2, <3>1, <4>1 DEF HubEvents
      <4>3. Arm(s)
        BY <1>10, <4>2 DEF DeliverEvent, ProcessPayload
      <4>4. e \in PendingFor(s, entries')
        BY <1>0, <1>1 DEF PendingFor
      <4> QED
        BY <4>3, <4>4 DEF Arm, Armed
    <3>2. CASE n # 1
      <4>1. n > 1
        BY <1>10, <3>2, Delivered
      <4>2. n - 1 \in DOMAIN events' /\ events'[n - 1] = events[n]
        BY <1>10, <4>1, Delivered
      <4> QED
        BY <2>2, <4>2 DEF Coming
    <3> QED
      BY <3>1, <3>2
  <2> QED
    BY <1>2, <1>3, <2>1, <2>2 DEF Coming
<1>11. ASSUME Reconnect PROVE s \in timers'
  BY <1>0, <1>11 DEF Reconnect, Watched
<1>12. ASSUME NEW q \in Sessions, RunStarts(q) PROVE Tended(e)'
  <2>1. turn'[q] \in Active /\ (s # q => turn'[s] = turn[s]) /\ UNCHANGED runs /\ Emit("busy", q)
    BY <1>1, <1>12 DEF RunStarts, Active
  <2> QED
    BY <1>2, <1>3, <1>5, <2>1
<1>13. ASSUME NEW q \in Sessions, RunEnds(q) PROVE Tended(e)'
  <2>1. (s # q => turn'[s] = turn[s] /\ runs'[s] = runs[s]) /\ Emit("idle", q)
    BY <1>1, <1>13 DEF RunEnds, Typed
  <2> QED
    BY <1>2, <1>3, <1>5, <2>1
<1>14. ASSUME NEW q \in Sessions, SessionDeleted(q) PROVE Tended(e)'
  <2>1. (s # q => turn'[s] = turn[s]) /\ UNCHANGED runs /\ Emit("deleted", q)
    BY <1>1, <1>14 DEF SessionDeleted
  <2> QED
    BY <1>2, <1>3, <1>5, <2>1
<1>15. ASSUME NEW q \in Sessions, RecordLands(q) PROVE Tended(e)'
  BY <1>4, <1>15 DEF RecordLands
<1> QED
  BY <1>0, <1>6, <1>7, <1>8, <1>9, <1>10, <1>11, <1>12, <1>13, <1>14, <1>15
     DEF Next, Control, Loop, Hub, Process, OpenCode

\* A write that is waited for stays in the chain until it ends.
LEMMA WaiterStays ==
  ASSUME Typed, NEW chain, NEW d, After(chain, d), NEW waiter, Persist(chain, waiter) \/ writes' = chain,
         entries' \subseteq Ids, NEW n \in DOMAIN writes, n > d
  PROVE  \E k \in DOMAIN writes' : writes'[k].waiter = writes[n].waiter
<1>1. n - d \in DOMAIN chain /\ chain[n - d] = writes[n] /\ chain \in Seq(Written)
  BY DEF After
<1>2. CASE writes' = chain
  BY <1>1, <1>2
<1>3. CASE Persist(chain, waiter)
  <2>1. n - d \in DOMAIN writes' /\ writes'[n - d] = chain[n - d]
    BY <1>1, <1>3, PersistLast
  <2> QED
    BY <1>1, <2>1
<1> QED
  BY <1>2, <1>3

\* A registration that is answered arms the timer.
LEMMA RegisteringStep ==
  ASSUME Typed, Looks, [Next]_vars, server = "up", server' = "up",
         NEW s \in Sessions, Registering(s), entries' \subseteq Ids
  PROVE  Registering(s)' \/ s \in timers' \/ PendingFor(s, entries') = {}
<1>1. PICK n \in DOMAIN writes, f \in Ids : route[f].session = s /\ writes[n].waiter = [register |-> f]
  BY DEF Registering
<1>2. UNCHANGED route
  BY AdmittedStays
<1>3. (\E k \in DOMAIN writes' : writes'[k].waiter = writes[n].waiter) => Registering(s)'
  BY <1>1, <1>2 DEF Registering
<1>4. n \in Nat \ {0}
  BY ChainAfter DEF After
<1>5. ASSUME UNCHANGED writes PROVE Registering(s)'
  BY <1>1, <1>3, <1>5
<1>6. ASSUME NEW waiter, Persist(writes, waiter) \/ writes' = writes PROVE Registering(s)'
  BY <1>3, <1>4, <1>6, ChainAfter, WaiterStays
<1>7. ASSUME Calm \/ LateArrives PROVE Registering(s)'
  BY <1>5, <1>7 DEF Calm, LateArrives, storage
<1>8. ASSUME Forgets PROVE Registering(s)'
  BY <1>6, <1>8 DEF Forgets
<1>9. CASE WriteEnds
  <2>1. writes # <<>> /\ UNCHANGED entries /\ Head(writes) = writes[1] /\ After(Tail(writes), 1)
    BY <1>9, WriteEndsCases, ChainAfter
  <2>2. \E waiter : Persist(Tail(writes), waiter) \/ writes' = Tail(writes)
    <3>1. ASSUME NEW q \in Sessions, NEW step \in Ticks, Goes(q, step, Tail(writes))
          PROVE  Persist(Tail(writes), [tick |-> q]) \/ writes' = Tail(writes)
      BY <3>1, NextEntryCases DEF Goes
    <3> QED
      BY <1>9, <3>1, WriteEndsCases
  <2>3. CASE n > 1
    BY <1>3, <2>1, <2>2, <2>3, WaiterStays
  <2>4. CASE n = 1
    <3>1. Resume([register |-> f])
      BY <1>1, <1>9, <2>1, <2>4 DEF WriteEnds
    <3>2. [register |-> f] # NoWaiter /\ \A q \in Sessions : [register |-> f] # [tick |-> q]
      BY WaitersDiffer DEF NoWaiter
    <3>3. \A g \in Ids : [register |-> f] = [register |-> g] => f = g
      <4>1. ASSUME NEW g \in Ids, [register |-> f] = [register |-> g] PROVE f = g
        <5>1. [register |-> f].register = [register |-> g].register
          BY <4>1
        <5> QED
          BY <5>1
      <4> QED
        BY <4>1
    <3>4. Arm(s)
      BY <1>1, <3>1, <3>2, <3>3 DEF Resume
    <3> QED
      BY <3>4 DEF Arm, Armed
  <2> QED
    BY <1>4, <2>3, <2>4
<1>10. ASSUME NEW e \in Ids, Register(e) PROVE Registering(s)'
  BY <1>6, <1>10 DEF Register
<1>11. ASSUME NEW q \in Sessions, LoopBegins(q) PROVE Registering(s)'
  <2>1. PICK step \in Ticks : Goes(q, step, writes)
    BY <1>11, LoopBeginsCases
  <2>2. Persist(writes, [tick |-> q]) \/ writes' = writes
    BY <2>1, NextEntryCases DEF Goes
  <2> QED
    BY <1>6, <2>2
<1>12. ASSUME NEW q \in Sessions, RequestArrives(q) PROVE Registering(s)'
  BY <1>5, <1>12 DEF RequestArrives, storage
<1>13. ASSUME NEW q \in Sessions, AnswerArrives(q) PROVE Registering(s)'
  BY <1>6, <1>13 DEF AnswerArrives
<1>14. ~Crash /\ ~Start /\ ~Load
  BY DEF Crash, Start, Load
<1> QED
  BY <1>7, <1>8, <1>9, <1>10, <1>11, <1>12, <1>13, <1>14, StepKinds

\* The loop of a tick looks at an entry, or at the end of it looks again.
LEMMA HandledGoes ==
  ASSUME Typed, Bounded, UNCHANGED route, NEW s \in Sessions, NEW step \in Ticks, NEW chain, NextEntry(s, step, chain),
         NEW e \in entries', route[e].session = s, e \in step.todo \/ (step.waiting /\ Rechecks(s))
  PROVE  s \in timers' \/ (InLoop(s)' /\ Handles(s, e)')
<1>1. ASSUME NEW phase \in {"minting", "request"}, tick' = [tick EXCEPT ![s] = [step EXCEPT !.phase = phase]],
             UNCHANGED settleChecks
      PROVE  InLoop(s)' /\ Handles(s, e)'
  <2>1. tick'[s] = [step EXCEPT !.phase = phase]
    BY <1>1 DEF Typed
  <2>2. tick'[s].phase = phase /\ tick'[s].todo = step.todo /\ tick'[s].waiting = step.waiting
    BY <2>1 DEF Ticks
  <2>3. tick'[s] # Asleep
    BY <2>1 DEF Ticks, Asleep
  <2>4. InLoop(s)'
    BY <1>1, <2>2, <2>3 DEF InLoop, AtEntry
  <2>5. Handles(s, e)'
    BY <1>1, <2>2 DEF Handles, Rechecks
  <2> QED
    BY <2>4, <2>5
<1>2. CASE step.todo = {}
  <2>1. LoopEnds(s, step) /\ step.waiting /\ Rechecks(s)
    BY <1>2 DEF NextEntry
  <2>2. Arm(s)
    BY <2>1 DEF LoopEnds, Rechecks
  <2>3. e \in PendingFor(s, entries')
    BY DEF PendingFor
  <2> QED
    BY <2>2, <2>3 DEF Arm, Armed
<1>3. CASE step.todo # {}
  BY <1>1, <1>3 DEF NextEntry
<1> QED
  BY <1>2, <1>3

\* A tick that has to look at a result does so, hears that its session is at
\* work or quiet, arms the timer, or gives it up.
LEMMA WillLookStep ==
  ASSUME Typed, Looks, Bounded, Registered, Trailing, Removed, [Next]_vars, server = "up", server' = "up",
         NEW s \in Sessions, NEW e \in entries, e \in entries', route[e].session = s, WillLook(e)
  PROVE  WillLook(e)' \/ s \in timers' \/ Tended(e)' \/ e \in forsaken'
<1>1. /\ e \in Ids /\ UNCHANGED route /\ afterIdle'[e] = afterIdle[e]
      /\ tick \in [Sessions -> {Asleep} \cup Ticks]
  BY BaselineKept, AdmittedStays DEF Typed
<1>2. tick[s] # Asleep /\ tick[s] \in Ticks
  BY <1>1 DEF WillLook, TickIn, InLoop
<1>3. ASSUME tick'[s] = tick[s], settleChecks'[s] = settleChecks[s] PROVE WillLook(e)'
  BY <1>1, <1>3 DEF WillLook, TickIn, InLoop, Handles, Rechecks, HasOutcome
<1>4. Arm(s) => s \in timers'
  <2>1. e \in PendingFor(s, entries')
    BY DEF PendingFor
  <2> QED
    BY <2>1 DEF Arm, Armed
<1>5. ASSUME NEW phase \in Phases, tick' = [tick EXCEPT ![s].phase = phase]
      PROVE  /\ tick'[s] # Asleep /\ tick'[s].phase = phase
             /\ tick'[s].todo = tick[s].todo /\ tick'[s].waiting = tick[s].waiting
  <2>1. tick'[s] = [tick[s] EXCEPT !.phase = phase]
    BY <1>1, <1>5
  <2> QED
    BY <1>2, <2>1 DEF Ticks, Asleep
<1>6. ASSUME NEW step \in Ticks, NEW chain, NextEntry(s, step, chain), e \in step.todo \/ (step.waiting /\ Rechecks(s))
      PROVE  WillLook(e)' \/ s \in timers'
  BY <1>1, <1>6, HandledGoes DEF WillLook
\* The tick of another session.
<1>7. ASSUME NEW q \in Sessions, q # s, TickBegins(q) \/ TickSteps(q) PROVE WillLook(e)'
  <2>1. ASSUME NEW step, NEW chain, NextEntry(q, step, chain)
        PROVE  tick'[s] = tick[s] /\ settleChecks'[s] = settleChecks[s]
    BY <1>1, <1>7, <2>1 DEF NextEntry, LoopEnds, TickEnds, Bounded
  <2>2. CASE LoopBegins(q)
    BY <1>3, <2>1, <2>2 DEF LoopBegins
  <2>3. CASE TickBegins(q) \/ ReadActivity(q) \/ HearsRunning(q) \/ ReadFails(q) \/ ReadRecords(q)
             \/ RequestArrives(q) \/ AnswerArrives(q) \/ RequestFails(q)
    <3>1. UNCHANGED settleChecks
      BY <2>3 DEF TickBegins, ReadActivity, HearsRunning, ReadFails, ReadRecords, RequestArrives, AnswerArrives,
                  RequestFails
    <3>2. tick'[s] = tick[s]
      BY <1>1, <1>7, <2>3 DEF TickBegins, ReadActivity, HearsRunning, ReadFails, ReadRecords, RequestArrives,
                              AnswerArrives, RequestFails, RetryLater, TickEnds
    <3> QED
      BY <1>3, <3>1, <3>2
  <2> QED
    BY <1>7, <2>2, <2>3 DEF TickSteps
<1>8. ~TickBegins(s) /\ ~HearsRunning(s)
  BY <1>2 DEF TickBegins, HearsRunning, WillLook, TickIn, InLoop, AtEntry
<1>9. ASSUME ReadActivity(s) PROVE WillLook(e)' \/ s \in timers' \/ Tended(e)'
  <2>1. CASE turn[s] = "running"
    BY <1>1, <1>9, <2>1 DEF ReadActivity, opencode, Tended, Active
  <2>2. CASE RetryLater(s)
    BY <1>4, <2>2 DEF RetryLater
  <2>3. CASE tick' = [tick EXCEPT ![s].phase = "records"]
    <3>1. TickIn(s, "records")'
      BY <1>5, <2>3 DEF TickIn, Phases
    <3> QED
      BY <1>1, <3>1 DEF WillLook
  <2> QED
    BY <1>9, <2>1, <2>2, <2>3 DEF ReadActivity
<1>10. ASSUME ReadFails(s) \/ RequestFails(s) PROVE s \in timers'
  BY <1>4, <1>10 DEF ReadFails, RequestFails, RetryLater
<1>11. ASSUME ReadRecords(s) PROVE WillLook(e)' \/ Tended(e)' \/ e \in forsaken'
  <2>1. /\ tick' = [tick EXCEPT ![s].phase = "loop", ![s].run = records[s], ![s].deleted = (turn[s] = "gone")]
        /\ UNCHANGED <<settleChecks, turn, runs, events>>
        /\ GivenUp(s) \subseteq forsaken'
    BY <1>11 DEF ReadRecords, opencode
  <2>2. tick'[s] = [[[tick[s] EXCEPT !.phase = "loop"] EXCEPT !.run = records[s]] EXCEPT !.deleted = (turn[s] = "gone")]
    BY <1>1, <2>1
  <2>3. TickIn(s, "loop")' /\ tick'[s].run = records[s] /\ tick'[s].deleted = (turn[s] = "gone")
    BY <1>2, <2>2 DEF TickIn, Ticks, Asleep
  <2>4. CASE Rechecks(s) \/ turn[s] = "gone" \/ records[s] # afterIdle[e]
    BY <1>1, <2>1, <2>3, <2>4 DEF WillLook, Rechecks, HasOutcome
  <2>5. CASE ~Rechecks(s) /\ turn[s] # "gone" /\ records[s] = afterIdle[e]
    <3>1. turn[s] \in {"idle", "running", "subagent"}
      BY <2>5 DEF Typed
    <3>2. CASE records[s] = runs[s] \/ turn[s] # "idle"
      BY <1>1, <2>1, <2>5, <3>1, <3>2 DEF Tended, Quiet, Active
    <3>3. CASE records[s] # runs[s] /\ turn[s] = "idle"
      <4>1. settleChecks[s] = SETTLE_RECHECKS
        BY <2>5, DispatchBounds DEF Bounded, Rechecks
      <4>2. e \in GivenUp(s)
        BY <2>5, <3>3, <4>1 DEF GivenUp, PendingFor, HasOutcome
      <4> QED
        BY <2>1, <4>2
    <3> QED
      BY <3>2, <3>3
  <2> QED
    BY <2>4, <2>5
<1>12. ASSUME LoopBegins(s) PROVE WillLook(e)' \/ s \in timers'
  <2> DEFINE pending == PendingFor(s, entries)
             ready == {f \in pending : tick[s].deleted \/ HasOutcome(f, tick[s].run)}
             step == [tick[s] EXCEPT !.todo = ready, !.waiting = (ready # pending)]
  <2>1. NextEntry(s, step, writes)
    BY <1>12 DEF LoopBegins
  <2>2. e \in pending /\ ready \subseteq Ids
    BY DEF PendingFor, Typed
  <2>3. step \in Ticks /\ step.todo = ready /\ step.waiting = (ready # pending)
    BY <1>2, <2>2 DEF Ticks
  <2>4. tick[s].phase = "loop"
    BY <1>12 DEF LoopBegins, TickIn
  <2>5. tick[s].deleted \/ HasOutcome(e, tick[s].run) \/ Rechecks(s)
    BY <2>4 DEF WillLook, TickIn, InLoop, AtEntry
  <2>6. e \in ready \/ (ready # pending /\ Rechecks(s))
    BY <2>2, <2>5
  <2> HIDE DEF step, ready, pending
  <2> QED
    BY <1>6, <2>1, <2>3, <2>6
\* The tick is at an entry.
<1>13. ASSUME NEW phase \in AtEntry, tick[s].phase = phase PROVE Handles(s, e)
  BY <1>13 DEF WillLook, TickIn, InLoop, AtEntry
<1>14. ASSUME RequestArrives(s) \/ AnswerArrives(s) PROVE WillLook(e)'
  <2>1. PICK phase \in {"answer", "removing"} : tick' = [tick EXCEPT ![s].phase = phase]
    BY <1>14 DEF RequestArrives, AnswerArrives
  <2>2. UNCHANGED settleChecks /\ Handles(s, e)
    BY <1>13, <1>14 DEF RequestArrives, AnswerArrives, TickIn, AtEntry
  <2>3. InLoop(s)' /\ Handles(s, e)'
    BY <1>5, <2>1, <2>2 DEF InLoop, Handles, Rechecks, AtEntry, Phases
  <2> QED
    BY <1>1, <2>3 DEF WillLook
<1>15. ASSUME WriteEnds PROVE WillLook(e)' \/ s \in timers'
  <2>1. Resume(Head(writes).waiter)
    BY <1>15 DEF WriteEnds
  <2>2. CASE UNCHANGED <<tick, settleChecks>>
    BY <1>3, <2>2
  <2>3. ASSUME NEW q \in Sessions, q # s, NEW step, NextEntry(q, step, Tail(writes)) PROVE WillLook(e)'
    <3>1. tick'[s] = tick[s] /\ settleChecks'[s] = settleChecks[s]
      BY <1>1, <2>3 DEF NextEntry, LoopEnds, TickEnds, Bounded
    <3> QED
      BY <1>3, <3>1
  <2>4. ASSUME TickIn(s, "minting"), NextEntry(s, tick[s], Tail(writes)) PROVE WillLook(e)' \/ s \in timers'
    <3>1. Handles(s, e)
      BY <1>13, <2>4 DEF TickIn, AtEntry
    <3> QED
      BY <1>2, <1>6, <2>4, <3>1 DEF Handles
  <2>5. ASSUME TickIn(s, "removing"), NextEntry(s, [tick[s] EXCEPT !.todo = @ \ {Oldest(@)}], Tail(writes))
        PROVE  WillLook(e)' \/ s \in timers'
    <3> DEFINE step == [tick[s] EXCEPT !.todo = @ \ {Oldest(@)}]
    <3>1. Handles(s, e) /\ e # At(s)
      BY <1>13, <2>5 DEF TickIn, AtEntry, Removed
    <3>2. step \in Ticks /\ step.todo = tick[s].todo \ {At(s)} /\ step.waiting = tick[s].waiting
      BY <1>2 DEF Ticks, At
    <3>3. e \in step.todo \/ (step.waiting /\ Rechecks(s))
      BY <3>1, <3>2 DEF Handles
    <3> HIDE DEF step
    <3> QED
      BY <1>6, <2>5, <3>2, <3>3 DEF step
  <2> QED
    BY <2>1, <2>2, <2>3, <2>4, <2>5 DEF Resume
<1>16. ASSUME DeliverEvent PROVE WillLook(e)' \/ s \in timers'
  <2>1. UNCHANGED tick /\ ProcessPayload(Head(events).type, Head(events).session)
    BY <1>16 DEF DeliverEvent
  <2>2. CASE settleChecks'[s] = settleChecks[s]
    BY <1>3, <2>1, <2>2
  <2>3. CASE settleChecks'[s] # settleChecks[s]
    <3>1. Head(events).session = s /\ Arm(s)
      BY <2>1, <2>3 DEF ProcessPayload, Bounded
    <3> QED
      BY <1>4, <3>1
  <2> QED
    BY <2>2, <2>3
<1>17. ASSUME NEW f \in Ids, DispatchBegins(f) \/ PromptLands(f) \/ Register(f) PROVE WillLook(e)'
  <2>1. UNCHANGED <<tick, settleChecks>>
    BY <1>17 DEF DispatchBegins, PromptLands, Register, runtime
  <2> QED
    BY <1>3, <2>1
<1>18. ASSUME LateArrives \/ Reconnect \/ UNCHANGED vars PROVE WillLook(e)'
  <2>1. UNCHANGED <<tick, settleChecks>>
    BY <1>18 DEF LateArrives, Reconnect, vars, runtime
  <2> QED
    BY <1>3, <2>1
<1>19. ASSUME NEW q \in Sessions, RunStarts(q) \/ RunEnds(q) \/ RecordLands(q) \/ SessionDeleted(q) PROVE WillLook(e)'
  <2>1. UNCHANGED <<tick, settleChecks>>
    BY <1>19 DEF RunStarts, RunEnds, RecordLands, SessionDeleted, Outside, runtime
  <2> QED
    BY <1>3, <2>1
<1>20. ~Crash /\ ~Start /\ ~Load
  BY DEF Crash, Start, Load
<1>21. ASSUME NEW q \in Sessions, TickBegins(q) \/ TickSteps(q) PROVE WillLook(e)' \/ s \in timers' \/ Tended(e)' \/ e \in forsaken'
  BY <1>7, <1>8, <1>9, <1>10, <1>11, <1>12, <1>14, <1>21 DEF TickSteps
<1> QED
  BY <1>15, <1>16, <1>17, <1>18, <1>19, <1>20, <1>21 DEF Next, Control, Loop, Hub, Process, OpenCode

\* A result comes into memory when it is registered, or when the file is read.
LEMMA PendingFrom ==
  ASSUME Typed, Looks, Stopped, [Next]_vars, NEW e \in entries'
  PROVE  e \in entries \/ Register(e) \/ Load
<1>1. CASE Calm \/ Forgets \/ WriteEnds \/ LateArrives \/ Crash \/ Start
  BY <1>1 DEF Calm, Forgets, WriteEnds, LateArrives, Crash, Start, runtime
<1>2. ASSUME NEW f \in Ids, Register(f) PROVE e \in entries \/ Register(e)
  BY <1>2 DEF Register, Kept
<1>3. ASSUME NEW s \in Sessions, LoopBegins(s) \/ RequestArrives(s) \/ AnswerArrives(s) PROVE e \in entries
  BY <1>3 DEF LoopBegins, RequestArrives, AnswerArrives
<1> QED
  BY <1>1, <1>2, <1>3, StepKinds

\* Every pending result goes on being looked for.
LEMMA AttendedStep ==
  ASSUME AttendedInv, [Next]_vars, Typed'
  PROVE  Attended'
<1> USE DEF AttendedInv, TypeInv
<1> SUFFICES ASSUME server' = "up", NEW e \in entries', e \notin forsaken' PROVE Looked(e)' \/ WillLook(e)'
  BY DEF Attended
<1>1. PICK s \in Sessions : s = route[e].session
  BY DEF Typed
<1>2. UNCHANGED route /\ e \in Ids /\ entries' \subseteq Ids
  BY AdmittedStays DEF Typed
<1>3. s \in timers' \/ Registering(s)' \/ Tended(e)' => Looked(e)'
  BY <1>1, <1>2 DEF Looked
<1>4. CASE Load
  BY <1>1, <1>3, <1>4 DEF Load
<1>5. CASE Register(e)
  <2>1. Persist(writes, [register |-> e]) /\ writes \in Seq(Written)
    BY <1>5 DEF Register, Typed
  <2>2. Len(writes) + 1 \in DOMAIN writes' /\ writes'[Len(writes) + 1].waiter = [register |-> e]
    BY <1>2, <2>1, PersistLast
  <2> QED
    BY <1>1, <1>2, <1>3, <2>2 DEF Registering
<1>6. CASE e \in entries /\ ~Load
  <2>1. server = "up"
    <3>1. ~Start
      BY DEF Start
    <3>2. CASE Calm \/ Forgets \/ WriteEnds \/ LateArrives \/ Crash
      BY <3>2 DEF Calm, Forgets, WriteEnds, LateArrives, Crash, runtime
    <3>3. CASE \E f \in Ids : Register(f)
      BY <3>3 DEF Register
    <3>4. CASE \E q \in Sessions : LoopBegins(q) \/ RequestArrives(q) \/ AnswerArrives(q)
      BY <3>4 DEF LoopBegins, RequestArrives, AnswerArrives
    <3> QED
      BY <1>6, <3>1, <3>2, <3>3, <3>4, StepKinds
  <2>2. e \in PendingFor(s, entries) /\ e \in PendingFor(s, entries')
    BY <1>1, <1>6 DEF PendingFor
  <2>3. ASSUME s \in timers PROVE Looked(e)' \/ WillLook(e)'
    <3>1. ASSUME TickBegins(s) PROVE WillLook(e)'
      <4>1. tick'[s] = [phase |-> "activity", todo |-> {}, waiting |-> FALSE, run |-> 0, deleted |-> FALSE]
        BY <2>2, <3>1 DEF TickBegins, Typed
      <4>2. TickIn(s, "activity")'
        BY <4>1 DEF TickIn, Asleep
      <4> QED
        BY <1>1, <1>2, <4>2 DEF WillLook
    <3>2. ASSUME DeliverEvent, Head(events).type = "busy", Head(events).session = s PROVE Tended(e)'
      <4>1. events[1].type = "busy" /\ events[1].session = s /\ 1 \in DOMAIN events /\ UNCHANGED turn
        BY <3>2, Delivered DEF DeliverEvent
      <4>2. CASE turn[s] \in Active
        BY <1>1, <1>2, <4>1, <4>2 DEF Tended
      <4>3. ASSUME NEW k \in DOMAIN events, k > 1, events[k].type # "busy", events[k].session = s PROVE Coming(s)'
        <5>1. k - 1 \in DOMAIN events' /\ events'[k - 1] = events[k]
          BY <3>2, <4>3, Delivered
        <5> QED
          BY <4>3, <5>1 DEF Coming
      <4>4. Coming(s)' => Tended(e)'
        BY <1>1, <1>2 DEF Tended
      <4> QED
        BY <4>1, <4>2, <4>3, <4>4 DEF Heard
    <3> QED
      BY <1>3, <2>1, <2>3, <3>1, <3>2, TimersKept
  <2>4. ASSUME Tended(e) PROVE Looked(e)'
    BY <1>1, <1>3, <1>6, <2>1, <2>4, TendedStep
  <2>5. ASSUME Registering(s) PROVE Looked(e)'
    BY <1>2, <1>3, <2>1, <2>2, <2>5, RegisteringStep
  <2>6. ASSUME WillLook(e) PROVE Looked(e)' \/ WillLook(e)'
    BY <1>1, <1>2, <1>3, <1>6, <2>1, <2>6, WillLookStep
  <2> QED
    BY <1>1, <1>6, <2>1, <2>3, <2>4, <2>5, <2>6, ForsakenStays DEF Attended, Looked
<1> QED
  BY <1>4, <1>5, <1>6, PendingFrom

\* At first nothing is pending.
LEMMA AttendedBegins ==
  ASSUME Init, TypeInv
  PROVE  AttendedInv
<1>1. Registered /\ Removed /\ Attended
  BY DEF Init, Registered, Removed, Attended, TickIn
<1>2. Heard
  BY DEF Init, Heard
<1>3. Trailing
  BY DEF Init, Trailing, TypeInv, Typed
<1> QED
  BY <1>1, <1>2, <1>3 DEF AttendedInv

\* A result that is looked for is not stranded.
LEMMA AttendedFollows ==
  ASSUME AttendedInv
  PROVE  NoStrandedResult
<1> USE DEF AttendedInv, TypeInv
<1> SUFFICES ASSUME server = "up", NEW e \in entries
             PROVE  LET s == route[e].session IN
                    \/ s \in timers \/ tick[s] # Asleep \/ e \in forsaken
                    \/ turn[s] \in {"running", "subagent"}
                    \/ turn[s] = "idle" /\ records[s] = afterIdle[e]
                    \/ \E n \in 1 .. Len(events) : events[n].session = s /\ events[n].type # "busy"
                    \/ \E n \in 1 .. Len(writes) :
                         \E f \in Ids : route[f].session = s /\ writes[n].waiter = [register |-> f]
  BY DEF NoStrandedResult
<1> DEFINE s == route[e].session
<1>1. DOMAIN events = 1 .. Len(events) /\ DOMAIN writes = 1 .. Len(writes)
  BY DEF Typed
<1>2. s \in Sessions /\ e \in Ids
  BY DEF Typed
<1>3. CASE WillLook(e)
  BY <1>3 DEF WillLook, TickIn, InLoop
<1>4. CASE Quiet(e)
  <2>1. afterIdle[e] <= records[s] /\ records[s] <= runs[s] /\ runs[s] = afterIdle[e]
    BY <1>2, <1>4 DEF Trailing, Quiet
  <2>2. afterIdle[e] \in Nat /\ records[s] \in Nat
    BY <1>2, DispatchBounds DEF Bounded
  <2> QED
    BY <1>4, <2>1, <2>2 DEF Quiet
<1>5. CASE s \in timers \/ turn[s] \in Active \/ Coming(s) \/ Registering(s)
  BY <1>1, <1>5 DEF Active, Coming, Registering
<1> QED
  BY <1>3, <1>4, <1>5 DEF Attended, Looked, Tended

\* A result whose turn is over always has something that looks for it, whatever
\* fails, crashes or is lost, unless a tick with no recheck left gave it up for a
\* record that trails.
THEOREM NoStrandedResultCorrect == Spec => []NoStrandedResult
<1>1. Init /\ Typed /\ Looks => AttendedInv
  BY TypeBegins, AttendedBegins
<1>2. AttendedInv /\ [Next]_vars /\ (Typed /\ Looks)' => AttendedInv'
  <2> SUFFICES ASSUME AttendedInv, [Next]_vars, Typed', Looks' PROVE AttendedInv'
    OBVIOUS
  <2>1. Stopped' /\ Bounded' /\ RunsEnded' /\ Minted' /\ MintedOnce'
    BY StoppedStep, BoundedStep, RunsEndedStep, MintedStep, MintedOnceStep DEF AttendedInv, TypeInv
  <2>2. Registered' /\ Heard' /\ Trailing' /\ Removed'
    BY RegisteredStep, HeardStep, TrailingStep, RemovedStep DEF AttendedInv, TypeInv
  <2>3. Attended'
    BY AttendedStep
  <2> QED
    BY <2>1, <2>2, <2>3 DEF AttendedInv, TypeInv
<1>3. AttendedInv => NoStrandedResult
  BY AttendedFollows
<1> QED
  BY <1>1, <1>2, <1>3, TypedCorrect, PTL DEF Spec

-----------------------------------------------------------------------------
(* Which answer is delivered *)

\* The run that works on a dispatched prompt is over; an answer is at least that
\* run's.
Over(e) == turnOf[e] # NotStarted /\ runs[route[e].session] >= turnOf[e]
Right(e, run, deleted) == deleted \/ (turnOf[e] # NotStarted /\ run >= turnOf[e])

\* A record is there as soon as its run has ended, and a run as soon as its
\* prompt is admitted.
Prompt == records = runs /\ unstarted = {}

\* A result is registered when a run works on its prompt.
Started ==
  /\ \A e \in Ids :
       /\ stage[e] \in {"new", "baseline"} => turnOf[e] = NotStarted
       /\ stage[e] \in Announced \cup {"prompted"} => turnOf[e] # NotStarted
  /\ \A e \in entries \cup disk.entries : turnOf[e] # NotStarted
  /\ \A n \in DOMAIN writes :
       /\ \A e \in writes[n].file.entries : turnOf[e] # NotStarted
       /\ \A e \in Ids : writes[n].waiter = [register |-> e] => turnOf[e] # NotStarted

\* That run is over, is under way, or the session was deleted.
WorkedOn ==
  \A e \in Ids : turnOf[e] # NotStarted =>
    LET s == route[e].session IN
    \/ runs[s] >= turnOf[e]
    \/ turn[s] = "gone"
    \/ turn[s] = "running" /\ turnOf[e] = runs[s] + 1

\* A tick looks at a result when that run is over, and has nothing to do before
\* it has read the records.
Reads ==
  \A s \in Sessions :
    /\ TickIn(s, "records") => turn[s] = "gone" \/ \A e \in PendingFor(s, entries) : Over(e)
    /\ TickIn(s, "loop") => \A e \in PendingFor(s, entries) : Right(e, tick[s].run, tick[s].deleted)
    /\ tick[s] # Asleep => \A e \in tick[s].todo : Right(e, tick[s].run, tick[s].deleted)
    /\ tick[s] # Asleep /\ tick[s].phase \notin AtEntry => tick[s].todo = {}

SentRight ==
  /\ \A r \in network : Right(r.id, r.run, r.deleted)
  /\ \A e \in Ids : \A n \in DOMAIN admitted[e] : Right(e, admitted[e][n].run, admitted[e][n].deleted)

AnswerInv ==
  /\ Typed /\ Looks /\ Stopped /\ Bounded /\ Registered /\ DeletedGone
  /\ Prompt /\ Started /\ WorkedOn /\ Reads /\ SentRight

\* No result is registered between the reads of a tick of its session and the
\* loop that applies what was read.
RegistersApart ==
  \A e \in Ids : stage[e] = "prompted" /\ stage'[e] = "registering" =>
    ~TickIn(route[e].session, "records") /\ ~TickIn(route[e].session, "loop")

\* No session is dispatched to twice.
DispatchedOnce == \A e, f \in Ids : route[e].session = route[f].session => e = f

\* A session is watched because of a result that was registered.
Mine == \A s \in Sessions : tick[s] # Asleep => \E e \in Ids : route[e].session = s /\ stage[e] \in LateStages

\* Records do not trail and runs start at once.
LEMMA PromptStep ==
  ASSUME ~Happens("trails"), ~Happens("startsLater"), Typed, Prompt, [Next]_vars
  PROVE  Prompt'
<1>1. CASE UNCHANGED <<records, runs, unstarted>>
  BY <1>1 DEF Prompt
<1>2. ASSUME NEW e \in Ids, DispatchBegins(e) \/ PromptLands(e) \/ Register(e) PROVE Prompt'
  BY <1>1, <1>2 DEF DispatchBegins, PromptLands, Register, opencode
<1>3. ASSUME NEW s \in Sessions, TickBegins(s) \/ TickSteps(s) PROVE Prompt'
  <2>1. UNCHANGED <<records, runs, unstarted>>
    BY <1>3 DEF TickBegins, TickSteps, ReadActivity, HearsRunning, ReadFails, ReadRecords, LoopBegins,
                RequestArrives, AnswerArrives, RequestFails, opencode
  <2> QED
    BY <1>1, <2>1
<1>4. CASE WriteEnds \/ LateArrives \/ DeliverEvent \/ Reconnect \/ Crash \/ Start \/ Load \/ UNCHANGED vars
  <2>1. UNCHANGED <<records, runs, unstarted>>
    BY <1>4 DEF WriteEnds, LateArrives, DeliverEvent, Reconnect, Crash, Start, Load, vars, opencode
  <2> QED
    BY <1>1, <2>1
<1>5. ASSUME NEW s \in Sessions, RunEnds(s) PROVE Prompt'
  <2>1. runs' = [runs EXCEPT ![s] = runs[s] + 1] /\ records' = [records EXCEPT ![s] = runs'[s]] /\ UNCHANGED unstarted
    BY <1>5 DEF RunEnds
  <2>2. runs'[s] = runs[s] + 1
    BY <2>1 DEF Typed
  <2> QED
    BY <2>1, <2>2 DEF Prompt
<1>6. ASSUME NEW s \in Sessions, RunStarts(s) \/ RecordLands(s) \/ SessionDeleted(s) PROVE Prompt'
  BY <1>1, <1>6 DEF RunStarts, RecordLands, SessionDeleted, Prompt
<1> QED
  BY <1>2, <1>3, <1>4, <1>5, <1>6 DEF Next, Control, Loop, Hub, Process, OpenCode

\* A run begins to work on a prompt when it is admitted, and runs go on ending.
LEMMA TurnKept ==
  ASSUME ~Happens("startsLater"), Typed, Bounded, Prompt, Started, [Next]_vars
  PROVE  /\ \A e \in Ids : \/ turnOf'[e] = turnOf[e]
                           \/ turnOf[e] = NotStarted /\ PromptLands(e) /\ turnOf'[e] = runs[route[e].session] + 1
         /\ \A s \in Sessions : runs'[s] >= runs[s] /\ runs'[s] \in Nat /\ runs[s] \in Nat
         /\ turnOf \in [Ids -> Nat]
<1>1. turnOf \in [Ids -> Nat] /\ runs \in [Sessions -> Nat]
  BY DispatchBounds DEF Bounded, Typed
<1> DEFINE Goal == /\ \A e \in Ids : \/ turnOf'[e] = turnOf[e]
                                     \/ turnOf[e] = NotStarted /\ PromptLands(e) /\ turnOf'[e] = runs[route[e].session] + 1
                   /\ \A s \in Sessions : runs'[s] >= runs[s] /\ runs'[s] \in Nat
<1>2. CASE UNCHANGED <<runs, turnOf>>
  BY <1>1, <1>2
<1>3. ASSUME NEW f \in Ids, PromptLands(f) PROVE Goal
  <2>1. turnOf' = [turnOf EXCEPT ![f] = runs[route[f].session] + 1] /\ UNCHANGED runs /\ stage[f] = "baseline"
    BY <1>3 DEF PromptLands
  <2>2. turnOf[f] = NotStarted
    BY <2>1 DEF Started
  <2> QED
    BY <1>1, <1>3, <2>1, <2>2
<1>4. ASSUME NEW s \in Sessions, RunEnds(s) PROVE Goal
  <2>1. runs' = [runs EXCEPT ![s] = runs[s] + 1] /\ UNCHANGED turnOf
    BY <1>4 DEF RunEnds
  <2> QED
    BY <1>1, <2>1
<1>5. ASSUME NEW s \in Sessions, RunStarts(s) PROVE Goal
  <2>1. turnOf' = [e \in Ids |-> turnOf[e]] /\ UNCHANGED runs
    BY <1>5 DEF RunStarts, Prompt
  <2> QED
    BY <1>1, <2>1
<1>6. ASSUME NEW s \in Sessions, RecordLands(s) \/ SessionDeleted(s) PROVE Goal
  BY <1>2, <1>6 DEF RecordLands, SessionDeleted
<1>7. ASSUME NEW e \in Ids, DispatchBegins(e) \/ Register(e) PROVE Goal
  BY <1>2, <1>7 DEF DispatchBegins, Register, opencode
<1>8. ASSUME NEW s \in Sessions, TickBegins(s) \/ TickSteps(s) PROVE Goal
  <2>1. UNCHANGED <<runs, turnOf>>
    BY <1>8 DEF TickBegins, TickSteps, ReadActivity, HearsRunning, ReadFails, ReadRecords, LoopBegins,
                RequestArrives, AnswerArrives, RequestFails, opencode
  <2> QED
    BY <1>2, <2>1
<1>9. CASE WriteEnds \/ LateArrives \/ DeliverEvent \/ Reconnect \/ Crash \/ Start \/ Load \/ UNCHANGED vars
  <2>1. UNCHANGED <<runs, turnOf>>
    BY <1>9 DEF WriteEnds, LateArrives, DeliverEvent, Reconnect, Crash, Start, Load, vars, opencode
  <2> QED
    BY <1>2, <2>1
<1>10. Goal
  BY <1>3, <1>4, <1>5, <1>6, <1>7, <1>8, <1>9 DEF Next, Control, Loop, Hub, Process, OpenCode
<1> QED
  BY <1>1, <1>10

\* What was right stays so.
LEMMA RightStays ==
  ASSUME ~Happens("startsLater"), Typed, Looks, Bounded, Prompt, Started, [Next]_vars, NEW e \in Ids
  PROVE  /\ \A run, deleted : Right(e, run, deleted) => Right(e, run, deleted)'
         /\ Over(e) => Over(e)'
<1>1. UNCHANGED route /\ route[e].session \in Sessions
  BY AdmittedStays DEF Typed
<1>2. ASSUME NEW run, NEW deleted, Right(e, run, deleted) PROVE Right(e, run, deleted)'
  BY <1>2, TurnKept DEF Right
<1>3. ASSUME Over(e) PROVE Over(e)'
  <2>1. turnOf'[e] = turnOf[e] /\ turnOf[e] \in Nat /\ runs'[route[e].session] >= runs[route[e].session]
        /\ runs'[route[e].session] \in Nat /\ runs[route[e].session] \in Nat
    BY <1>1, <1>3, TurnKept DEF Over
  <2> QED
    BY <1>1, <1>3, <2>1 DEF Over
<1> QED
  BY <1>2, <1>3

\* How a tick comes to a phase before its loop has begun.
LEMMA PhaseFrom ==
  ASSUME Typed, Looks, [Next]_vars, NEW s \in Sessions, tick'[s] # Asleep, tick'[s].phase \notin AtEntry
  PROVE  \/ tick'[s] = tick[s]
         \/ TickBegins(s) /\ tick'[s].phase = "activity" /\ tick'[s].todo = {}
         \/ /\ ReadActivity(s) /\ TickIn(s, "activity") /\ tick'[s].todo = tick[s].todo
            /\ \/ tick'[s].phase = "running"
               \/ tick'[s].phase = "records" /\ turn[s] \in {"idle", "gone"}
         \/ /\ ReadRecords(s) /\ TickIn(s, "records") /\ tick'[s].todo = tick[s].todo
            /\ tick'[s].phase = "loop" /\ tick'[s].run = records[s] /\ tick'[s].deleted = (turn[s] = "gone")
<1> DEFINE Goal ==
             \/ tick'[s] = tick[s]
             \/ TickBegins(s) /\ tick'[s].phase = "activity" /\ tick'[s].todo = {}
             \/ /\ ReadActivity(s) /\ TickIn(s, "activity") /\ tick'[s].todo = tick[s].todo
                /\ \/ tick'[s].phase = "running"
                   \/ tick'[s].phase = "records" /\ turn[s] \in {"idle", "gone"}
             \/ /\ ReadRecords(s) /\ TickIn(s, "records") /\ tick'[s].todo = tick[s].todo
                /\ tick'[s].phase = "loop" /\ tick'[s].run = records[s] /\ tick'[s].deleted = (turn[s] = "gone")
<1>1. tick \in [Sessions -> {Asleep} \cup Ticks]
  BY DEF Typed
<1>2. CASE UNCHANGED tick
  BY <1>2
<1>3. ASSUME NEW q \in Sessions, TickBegins(q) PROVE Goal
  <2>1. CASE q = s /\ PendingFor(s, entries) # {}
    <3>1. tick'[s] = [phase |-> "activity", todo |-> {}, waiting |-> FALSE, run |-> 0, deleted |-> FALSE]
      BY <1>1, <1>3, <2>1 DEF TickBegins
    <3> QED
      BY <1>3, <2>1, <3>1
  <2>2. CASE q # s \/ PendingFor(q, entries) = {}
    BY <1>1, <1>3, <2>2 DEF TickBegins
  <2> QED
    BY <2>1, <2>2
<1>4. ASSUME NEW q \in Sessions, TickEnds(q) PROVE Goal
  BY <1>1, <1>4 DEF TickEnds
<1>5. ASSUME NEW q \in Sessions, ReadActivity(q) PROVE Goal
  <2>1. tick[q] # Asleep /\ TickIn(q, "activity")
    BY <1>5 DEF ReadActivity, TickIn
  <2>2. CASE turn[q] = "running" /\ tick' = [tick EXCEPT ![q].phase = "running"]
    BY <1>1, <1>5, <2>1, <2>2, PhaseType DEF Phases
  <2>3. CASE turn[q] \in {"idle", "gone"} /\ tick' = [tick EXCEPT ![q].phase = "records"]
    BY <1>1, <1>5, <2>1, <2>3, PhaseType DEF Phases
  <2> QED
    BY <1>4, <1>5, <2>2, <2>3 DEF ReadActivity, RetryLater
<1>6. ASSUME NEW q \in Sessions, ReadRecords(q) PROVE Goal
  <2>1. CASE q = s
    <3>1. tick[s] \in Ticks /\ TickIn(s, "records")
      BY <1>1, <1>6, <2>1 DEF ReadRecords, TickIn
    <3>2. tick'[s] = [tick[s] EXCEPT !.phase = "loop", !.run = records[s], !.deleted = (turn[s] = "gone")]
      BY <1>1, <1>6, <2>1 DEF ReadRecords
    <3>3. /\ tick'[s].phase = "loop" /\ tick'[s].run = records[s] /\ tick'[s].deleted = (turn[s] = "gone")
          /\ tick'[s].todo = tick[s].todo
      BY <3>1, <3>2 DEF Ticks
    <3> QED
      BY <1>6, <2>1, <3>1, <3>3
  <2>2. CASE q # s
    BY <1>1, <1>6, <2>2 DEF ReadRecords
  <2> QED
    BY <2>1, <2>2
\* The loop of a tick.
<1>7. ASSUME NEW q \in Sessions, NEW step \in Ticks, NEW chain, Goes(q, step, chain) PROVE Goal
  <2>1. CASE q # s
    BY <1>7, <2>1, NextEntryCases DEF Goes
  <2>2. CASE q = s
    BY <1>7, <2>2, NextEntryCases DEF Goes, AtEntry
  <2> QED
    BY <2>1, <2>2
<1>8. ASSUME NEW q \in Sessions, LoopBegins(q) PROVE Goal
  BY <1>7, <1>8, LoopBeginsCases
<1>9. ASSUME NEW q \in Sessions, RequestArrives(q) \/ AnswerArrives(q) PROVE Goal
  <2>1. PICK phase \in {"answer", "removing"} : tick[q] # Asleep /\ tick' = [tick EXCEPT ![q].phase = phase]
    BY <1>9 DEF RequestArrives, AnswerArrives, TickIn
  <2>2. tick'[q].phase \in AtEntry /\ \A p \in Sessions : p # q => tick'[p] = tick[p]
    BY <2>1, PhaseType DEF Phases, AtEntry
  <2> QED
    BY <2>2
<1>10. ASSUME NEW q \in Sessions, HearsRunning(q) \/ ReadFails(q) \/ RequestFails(q) PROVE Goal
  BY <1>4, <1>10 DEF HearsRunning, ReadFails, RequestFails, RetryLater
<1>11. CASE WriteEnds
  BY <1>2, <1>7, <1>11, WriteEndsCases
<1>12. ASSUME Crash PROVE Goal
  BY <1>12 DEF Crash
<1>13. CASE (\E e \in Ids : DispatchBegins(e) \/ PromptLands(e) \/ Register(e)) \/ LateArrives
            \/ DeliverEvent \/ Reconnect \/ Start \/ Load \/ UNCHANGED vars
  BY <1>2, <1>13 DEF DispatchBegins, PromptLands, Register, LateArrives, DeliverEvent, Reconnect, Start, Load,
                     vars, runtime
<1>14. ASSUME NEW q \in Sessions, RunStarts(q) \/ RunEnds(q) \/ RecordLands(q) \/ SessionDeleted(q) PROVE Goal
  <2>1. UNCHANGED tick
    BY <1>14 DEF RunStarts, RunEnds, RecordLands, SessionDeleted, Outside, runtime
  <2> QED
    BY <1>2, <2>1
<1> QED
  BY <1>3, <1>5, <1>6, <1>8, <1>9, <1>10, <1>11, <1>12, <1>13, <1>14
     DEF Next, Control, Loop, TickSteps, Hub, Process, OpenCode

\* What a tick has to do is what was pending when its loop began.
LEMMA TodoFrom ==
  ASSUME Typed, Looks, Stopped, [Next]_vars, NEW s \in Sessions, tick'[s] # Asleep, NEW e \in tick'[s].todo
  PROVE  \/ tick[s] # Asleep /\ e \in tick[s].todo
         \/ LoopBegins(s) /\ TickIn(s, "loop") /\ e \in PendingFor(s, entries)
<1> DEFINE Goal == \/ tick[s] # Asleep /\ e \in tick[s].todo
                   \/ LoopBegins(s) /\ TickIn(s, "loop") /\ e \in PendingFor(s, entries)
<1>1. CASE tick'[s] = tick[s]
  BY <1>1
<1>2. CASE Calm
  BY <1>1, <1>2 DEF Calm
<1>3. ASSUME NEW q \in Sessions, NEW step \in Ticks, NEW chain, Goes(q, step, chain), q = s => (e \in step.todo => Goal)
      PROVE  Goal
  BY <1>1, <1>3, NextEntryCases DEF Goes
<1>4. CASE WriteEnds
  <2>1. ASSUME NEW q \in Sessions, NEW step \in Ticks, Goes(q, step, Tail(writes)), step.todo \subseteq tick[q].todo
        PROVE  Goal
    BY <1>3, <2>1 DEF Goes
  <2> QED
    BY <1>1, <1>4, <2>1, WriteEndsCases
<1>5. ASSUME NEW q \in Sessions, LoopBegins(q) PROVE Goal
  BY <1>3, <1>5, LoopBeginsCases DEF PendingFor
<1>6. ASSUME NEW q \in Sessions, RequestArrives(q) \/ AnswerArrives(q) PROVE Goal
  <2>1. PICK phase \in {"answer", "removing"} : tick[q] # Asleep /\ tick' = [tick EXCEPT ![q].phase = phase]
    BY <1>6 DEF RequestArrives, AnswerArrives, TickIn
  <2>2. tick'[q].todo = tick[q].todo /\ \A p \in Sessions : p # q => tick'[p] = tick[p]
    BY <2>1, PhaseType DEF Phases
  <2> QED
    BY <1>1, <2>1, <2>2
<1>7. CASE Crash \/ Start \/ Load
  BY <1>1, <1>7 DEF Crash, Start, Load, Stopped
<1>8. CASE Forgets \/ LateArrives \/ \E f \in Ids : Register(f)
  BY <1>1, <1>8 DEF Forgets, LateArrives, Register, runtime
<1> QED
  BY <1>2, <1>4, <1>5, <1>6, <1>7, <1>8, StepKinds

\* A registration waits for its own write.
LEMMA WaitersFrom ==
  ASSUME Typed, Looks, [Next]_vars, NEW n \in DOMAIN writes', NEW e \in Ids, writes'[n].waiter = [register |-> e]
  PROVE  Register(e) \/ \E k \in DOMAIN writes : writes[k].waiter = [register |-> e]
<1> DEFINE Goal == Register(e) \/ \E k \in DOMAIN writes : writes[k].waiter = [register |-> e]
<1>1. ASSUME NEW chain, NEW d, After(chain, d), NEW waiter, Persist(chain, waiter) \/ writes' = chain,
             waiter = [register |-> e] => Register(e)
      PROVE  Goal
  <2>1. chain \in Seq(Written) /\ \A k \in DOMAIN chain : \E j \in DOMAIN writes : chain[k] = writes[j]
    BY <1>1 DEF After
  <2>2. CASE writes' = chain
    BY <2>1, <2>2
  <2>3. CASE Persist(chain, waiter)
    <3> DEFINE w == [file |-> Saved(entries', message'), waiter |-> waiter]
    <3>1. writes' = Append(chain, w)
      BY <2>3 DEF Persist
    <3>2. w.waiter = waiter
      OBVIOUS
    <3> HIDE DEF w
    <3>3. (n \in DOMAIN chain /\ writes'[n] = chain[n]) \/ writes'[n] = w
      BY <2>1, <3>1
    <3> QED
      BY <1>1, <2>1, <3>2, <3>3
  <2> QED
    BY <1>1, <2>2, <2>3
<1>2. NoWaiter # [register |-> e] /\ \A s \in Sessions : [tick |-> s] # [register |-> e]
  <2>1. NoWaiter # [register |-> e]
    BY DEF NoWaiter
  <2> QED
    BY <2>1, WaitersDiffer
<1>3. UNCHANGED writes => Goal
  OBVIOUS
<1> HIDE DEF Goal
<1>4. CASE WriteEnds
  <2>1. writes # <<>>
    BY <1>4 DEF WriteEnds
  <2>2. ASSUME writes' = Tail(writes) PROVE Goal
    BY <1>1, <1>2, <2>1, <2>2, ChainAfter
  <2>3. ASSUME NEW s \in Sessions, NEW step \in Ticks, Goes(s, step, Tail(writes)) PROVE Goal
    <3>1. Persist(Tail(writes), [tick |-> s]) \/ writes' = Tail(writes)
      BY <2>3, NextEntryCases DEF Goes
    <3> QED
      BY <1>1, <1>2, <2>1, <3>1, ChainAfter
  <2> QED
    BY <1>4, <2>2, <2>3, WriteEndsCases DEF Goal
<1>5. CASE Forgets
  BY <1>1, <1>2, <1>5, ChainAfter DEF Forgets, Goal
<1>6. ASSUME NEW f \in Ids, Register(f) PROVE Goal
  <2>1. ASSUME [register |-> f] = [register |-> e] PROVE f = e
    <3>1. [register |-> f].register = [register |-> e].register
      BY <2>1
    <3> QED
      BY <3>1
  <2>2. Persist(writes, [register |-> f])
    BY <1>6 DEF Register
  <2> QED
    BY <1>1, <1>6, <2>1, <2>2, ChainAfter
<1>7. ASSUME NEW s \in Sessions, LoopBegins(s) PROVE Goal
  <2>1. PICK step \in Ticks : Goes(s, step, writes)
    BY <1>7, LoopBeginsCases
  <2>2. Persist(writes, [tick |-> s]) \/ writes' = writes
    BY <2>1, NextEntryCases DEF Goes
  <2> QED
    BY <1>1, <1>2, <2>2, ChainAfter
<1>8. ASSUME NEW s \in Sessions, AnswerArrives(s) PROVE Goal
  BY <1>1, <1>2, <1>8, ChainAfter DEF AnswerArrives
<1>9. ASSUME NEW s \in Sessions, RequestArrives(s) PROVE Goal
  BY <1>3, <1>9 DEF RequestArrives, storage
<1>10. CASE Calm \/ LateArrives \/ Start \/ Load
  BY <1>3, <1>10 DEF Calm, LateArrives, Start, Load, storage
<1>11. ASSUME Crash PROVE FALSE
  BY <1>11 DEF Crash
<1> QED
  BY <1>4, <1>5, <1>6, <1>7, <1>8, <1>9, <1>10, <1>11, StepKinds DEF Goal

\* How a dispatch gets to be prompted or registered.
LEMMA StageFrom ==
  ASSUME Typed, Looks, Stopped, [Next]_vars, NEW e \in Ids
  PROVE  /\ stage'[e] \in {"new", "baseline"} => stage[e] \in {"new", "baseline"} /\ ~PromptLands(e)
         /\ stage'[e] = "prompted" => stage[e] = "prompted" \/ PromptLands(e)
         /\ stage'[e] \in Announced =>
              \/ stage[e] \in Announced \cup {"prompted"}
              \/ WriteEnds /\ Head(writes).waiter = [register |-> e]
<1>1. stage'[e] \in Announced => \/ stage[e] \in Announced \cup {"prompted"}
                                 \/ WriteEnds /\ Head(writes).waiter = [register |-> e]
  BY StageCases DEF Register
<1>2. PromptLands(e) => stage'[e] = "prompted"
  BY DEF PromptLands, Typed
<1> DEFINE Goal == /\ stage'[e] \in {"new", "baseline"} => stage[e] \in {"new", "baseline"}
                   /\ stage'[e] = "prompted" => stage[e] = "prompted" \/ PromptLands(e)
<1>3. ASSUME UNCHANGED stage PROVE Goal
  BY <1>3
<1>4. ASSUME NEW f \in Ids, DispatchBegins(f) \/ PromptLands(f) \/ Register(f) PROVE Goal
  BY <1>4 DEF DispatchBegins, PromptLands, Register, Typed
<1>5. ASSUME NEW s \in Sessions, TickBegins(s) \/ TickSteps(s) PROVE Goal
  <2>1. UNCHANGED stage
    BY <1>5 DEF TickBegins, TickSteps, ReadActivity, HearsRunning, ReadFails, ReadRecords, LoopBegins,
                RequestArrives, AnswerArrives, RequestFails, dispatch
  <2> QED
    BY <1>3, <2>1
<1>6. ASSUME WriteEnds PROVE Goal
  <2>1. ASSUME NEW f \in Ids, stage' = [stage EXCEPT ![f] = "registered"] PROVE Goal
    BY <2>1 DEF Typed
  <2> QED
    BY <1>3, <1>6, <2>1, WriteEndsCases DEF Goes
<1>7. ASSUME Crash PROVE Goal
  BY <1>7 DEF Crash
<1>8. ASSUME LateArrives \/ DeliverEvent \/ Reconnect \/ Start \/ Load \/ UNCHANGED vars PROVE Goal
  BY <1>3, <1>8 DEF LateArrives, DeliverEvent, Reconnect, Start, Load, vars, dispatch
<1>9. ASSUME NEW s \in Sessions, RunStarts(s) \/ RunEnds(s) \/ RecordLands(s) \/ SessionDeleted(s) PROVE Goal
  <2>1. UNCHANGED stage
    BY <1>9 DEF RunStarts, RunEnds, RecordLands, SessionDeleted, Outside, dispatch
  <2> QED
    BY <1>3, <2>1
<1>10. Goal
  BY <1>4, <1>5, <1>6, <1>7, <1>8, <1>9 DEF Next, Control, Loop, Hub, Process, OpenCode
<1> QED
  BY <1>1, <1>2, <1>10

\* What is registered has a run that works on it.
LEMMA StartedStep ==
  ASSUME ~Happens("startsLater"), Typed, Typed', Looks, Stopped, Bounded, Prompt, Started, [Next]_vars
  PROVE  Started'
<1>1. \A e \in Ids : turnOf[e] # NotStarted => turnOf'[e] # NotStarted
  BY TurnKept
<1>2. ASSUME NEW e \in Ids, stage'[e] \in {"new", "baseline"} PROVE turnOf'[e] = NotStarted
  BY <1>2, StageFrom, TurnKept DEF Started
<1>3. ASSUME NEW e \in Ids, PromptLands(e) PROVE turnOf'[e] # NotStarted
  <2>1. turnOf'[e] = runs[route[e].session] + 1 /\ route[e].session \in Sessions
    BY <1>3 DEF PromptLands, Bounded, Typed
  <2> QED
    BY <2>1, TurnKept DEF NotStarted
<1>4. ASSUME WriteEnds, NEW e \in Ids, Head(writes).waiter = [register |-> e] PROVE turnOf'[e] # NotStarted
  <2>1. 1 \in DOMAIN writes /\ writes[1].waiter = [register |-> e]
    BY <1>4, ChainAfter, WriteEndsCases
  <2> QED
    BY <1>1, <2>1 DEF Started
<1>5. ASSUME NEW e \in Ids, stage'[e] \in Announced \cup {"prompted"} PROVE turnOf'[e] # NotStarted
  BY <1>1, <1>3, <1>4, <1>5, StageFrom DEF Started
<1>6. ASSUME NEW e \in entries' PROVE turnOf'[e] # NotStarted
  <2>1. CASE Register(e) \/ e \in entries
    BY <1>1, <2>1 DEF Started, Register, Typed
  <2>2. CASE Load
    BY <1>1, <1>6, <2>2 DEF Load, Started, Typed
  <2> QED
    BY <2>1, <2>2, PendingFrom
<1>7. ASSUME NEW n \in DOMAIN writes', NEW e \in writes'[n].file.entries PROVE turnOf'[e] # NotStarted
  <2>1. CASE writes'[n].file = Saved(entries', message')
    BY <1>6, <1>7, <2>1 DEF Saved
  <2>2. ASSUME NEW k \in DOMAIN writes, writes'[n] = writes[k] PROVE turnOf'[e] # NotStarted
    <3>1. writes[k] \in Written
      BY DEF Typed
    <3>2. e \in Ids /\ e \in writes[k].file.entries
      BY <1>7, <2>2, <3>1 DEF Written, Files
    <3> QED
      BY <1>1, <3>2 DEF Started
  <2> QED
    BY <2>1, <2>2, WrittenFrom
<1>8. ASSUME NEW e \in disk'.entries PROVE turnOf'[e] # NotStarted
  <2>1. CASE disk' = disk
    BY <1>1, <1>8, <2>1 DEF Started, Typed, Files
  <2>2. ASSUME NEW k \in DOMAIN writes, disk' = writes[k].file PROVE turnOf'[e] # NotStarted
    <3>1. writes[k] \in Written
      BY DEF Typed
    <3>2. e \in Ids /\ e \in writes[k].file.entries
      BY <1>8, <2>2, <3>1 DEF Written, Files
    <3> QED
      BY <1>1, <3>2 DEF Started
  <2> QED
    BY <2>1, <2>2, WrittenFrom
<1>9. ASSUME NEW n \in DOMAIN writes', NEW e \in Ids, writes'[n].waiter = [register |-> e] PROVE turnOf'[e] # NotStarted
  <2>1. CASE Register(e)
    BY <1>1, <2>1 DEF Started, Register
  <2>2. CASE \E k \in DOMAIN writes : writes[k].waiter = [register |-> e]
    BY <1>1, <2>2 DEF Started
  <2> QED
    BY <1>9, <2>1, <2>2, WaitersFrom
<1> QED
  BY <1>2, <1>5, <1>6, <1>7, <1>8, <1>9 DEF Started

\* A run that works on a prompt goes on until it is over.
LEMMA WorkedOnStep ==
  ASSUME ~Happens("startsLater"), Typed, Looks, Bounded, DeletedGone, Prompt, Started, WorkedOn, [Next]_vars
  PROVE  WorkedOn'
<1>1. /\ UNCHANGED route /\ turnOf \in [Ids -> Nat] /\ runs \in [Sessions -> Nat]
      /\ \A s \in Sessions : turn[s] = "gone" => turn'[s] = "gone"
      /\ \A s \in Sessions : runs'[s] >= runs[s] /\ runs'[s] \in Nat
      /\ turn \in [Sessions -> {"idle", "running", "subagent", "gone"}]
  BY AdmittedStays, DeletedStays, TurnKept DEF Typed
<1> SUFFICES ASSUME NEW e \in Ids, turnOf'[e] # NotStarted, NEW s \in Sessions, s = route[e].session
             PROVE  \/ runs'[s] >= turnOf'[e]
                    \/ turn'[s] = "gone"
                    \/ turn'[s] = "running" /\ turnOf'[e] = runs'[s] + 1
  <2>1. \A e \in Ids : route[e].session \in Sessions
    BY DEF Typed
  <2> QED
    BY <1>1, <2>1 DEF WorkedOn
<1>2. CASE PromptLands(e)
  <2>1. turnOf' = [turnOf EXCEPT ![e] = runs[s] + 1] /\ UNCHANGED runs
        /\ (turn'[s] = "running")
    BY <1>1, <1>2 DEF PromptLands
  <2> QED
    BY <1>1, <2>1
<1>3. CASE turnOf'[e] = turnOf[e]
  <2>1. CASE runs[s] >= turnOf[e]
    BY <1>1, <1>3, <2>1
  <2>2. CASE turn[s] = "gone"
    BY <1>1, <2>2
  <2>3. CASE turn[s] = "running" /\ turnOf[e] = runs[s] + 1
    <3>1. CASE turn'[s] = turn[s] /\ runs'[s] = runs[s]
      BY <1>3, <2>3, <3>1
    <3>2. ASSUME NEW q \in Sessions, RunEnds(q) PROVE runs'[s] >= turnOf'[e] \/ (turn'[s] = turn[s] /\ runs'[s] = runs[s])
      BY <1>1, <1>3, <2>3, <3>2 DEF RunEnds
    <3>3. ASSUME NEW q \in Sessions, SessionDeleted(q) \/ RunStarts(q) \/ RecordLands(q)
          PROVE  turn'[s] = "gone" \/ (turn'[s] = turn[s] /\ runs'[s] = runs[s])
      BY <1>1, <2>3, <3>3 DEF SessionDeleted, RunStarts, RecordLands
    <3>4. ASSUME NEW f \in Ids, DispatchBegins(f) \/ PromptLands(f) \/ Register(f)
          PROVE  turn'[s] = turn[s] /\ runs'[s] = runs[s]
      BY <1>1, <2>3, <3>4 DEF DispatchBegins, PromptLands, Register, opencode
    <3>5. ASSUME NEW q \in Sessions, TickBegins(q) \/ TickSteps(q) PROVE UNCHANGED <<turn, runs>>
      BY <3>5 DEF TickBegins, TickSteps, ReadActivity, HearsRunning, ReadFails, ReadRecords, LoopBegins,
                  RequestArrives, AnswerArrives, RequestFails, opencode
    <3>6. CASE WriteEnds \/ LateArrives \/ DeliverEvent \/ Reconnect \/ Crash \/ Start \/ Load \/ UNCHANGED vars
      BY <3>1, <3>6 DEF WriteEnds, LateArrives, DeliverEvent, Reconnect, Crash, Start, Load, vars, opencode
    <3> QED
      BY <3>1, <3>2, <3>3, <3>4, <3>5, <3>6 DEF Next, Control, Loop, Hub, Process, OpenCode
  <2> QED
    BY <1>3, <2>1, <2>2, <2>3 DEF WorkedOn
<1> QED
  BY <1>2, <1>3, TurnKept

\* A tick reads what is right for what it will look at, as long as nothing is
\* registered meanwhile.
LEMMA ReadsStep ==
  ASSUME ~Happens("startsLater"), Typed, Typed', Looks, Stopped, Bounded, DeletedGone, Prompt, Started, WorkedOn,
         Reads, [Next]_vars, RegistersApart
  PROVE  Reads'
<1> SUFFICES ASSUME NEW s \in Sessions, tick'[s] # Asleep
             PROVE  /\ tick'[s].phase = "records" => turn'[s] = "gone" \/ \A e \in PendingFor(s, entries)' : Over(e)'
                    /\ tick'[s].phase = "loop" =>
                         \A e \in PendingFor(s, entries)' : Right(e, tick[s].run, tick[s].deleted)'
                    /\ \A e \in tick'[s].todo : Right(e, tick[s].run, tick[s].deleted)'
                    /\ tick'[s].phase \notin AtEntry => tick'[s].todo = {}
  BY DEF Reads, TickIn
<1>1. /\ UNCHANGED route /\ \A q \in Sessions : turn[q] = "gone" => turn'[q] = "gone"
      /\ tick \in [Sessions -> {Asleep} \cup Ticks]
  BY AdmittedStays, DeletedStays DEF Typed
\* What is pending was so before the reads.
<1>2. ASSUME NEW e \in PendingFor(s, entries)', TickIn(s, "records") \/ TickIn(s, "loop")
      PROVE  e \in PendingFor(s, entries) /\ e \in Ids
  <2>1. e \in entries' /\ route[e].session = s /\ e \in Ids
    BY <1>1, <1>2 DEF PendingFor, Typed
  <2>2. ~Register(e)
    <3>1. Register(e) => stage[e] = "prompted" /\ stage'[e] = "registering"
      BY <2>1 DEF Register, Typed
    <3> QED
      BY <1>2, <2>1, <3>1 DEF RegistersApart
  <2>3. ~Load
    BY <1>2 DEF Load, Stopped, TickIn
  <2> QED
    BY <2>1, <2>2, <2>3, PendingFrom DEF PendingFor
<1>3. ASSUME NEW e \in Ids, Right(e, tick[s].run, tick[s].deleted),
             tick'[s].run = tick[s].run, tick'[s].deleted = tick[s].deleted
      PROVE  Right(e, tick[s].run, tick[s].deleted)'
  BY <1>3, RightStays DEF Right
<1>4. \A e \in Ids : Over(e) => Over(e)'
  BY RightStays
<1>5. tick'[s].phase \notin AtEntry => tick'[s].todo = {}
  <2> SUFFICES ASSUME tick'[s].phase \notin AtEntry PROVE tick'[s].todo = {}
    OBVIOUS
  <2>1. CASE tick'[s] = tick[s]
    BY <2>1 DEF Reads
  <2>2. CASE TickIn(s, "activity") \/ TickIn(s, "records")
    <3>1. tick[s] # Asleep /\ tick[s].phase \notin AtEntry
      BY <2>2 DEF TickIn, AtEntry
    <3>2. tick[s].todo = {}
      BY <3>1 DEF Reads
    <3> QED
      BY <2>2, <3>1, <3>2, PhaseFrom
  <2> QED
    BY <2>1, <2>2, PhaseFrom
<1>6. ASSUME tick'[s].phase = "records" PROVE turn'[s] = "gone" \/ \A e \in PendingFor(s, entries)' : Over(e)'
  <2>1. CASE tick'[s] = tick[s]
    <3>1. TickIn(s, "records")
      BY <1>6, <2>1 DEF TickIn
    <3>2. turn[s] = "gone" \/ \A e \in PendingFor(s, entries) : Over(e)
      BY <3>1 DEF Reads
    <3> QED
      BY <1>1, <1>2, <1>4, <3>1, <3>2
  <2>2. CASE ReadActivity(s) /\ turn[s] \in {"idle", "gone"}
    <3>1. UNCHANGED <<entries, turn, runs, turnOf>>
      BY <2>2 DEF ReadActivity, opencode
    <3>2. ASSUME NEW e \in PendingFor(s, entries), turn[s] = "idle" PROVE Over(e)
      <4>1. e \in Ids /\ turnOf[e] # NotStarted /\ route[e].session = s
        BY <3>2 DEF PendingFor, Started, Typed
      <4> QED
        BY <3>2, <4>1 DEF WorkedOn, Over
    <3>3. PendingFor(s, entries)' = PendingFor(s, entries) /\ PendingFor(s, entries) \subseteq Ids
      BY <1>1, <3>1 DEF PendingFor, Typed
    <3> QED
      BY <1>1, <1>4, <2>2, <3>2, <3>3
  <2> QED
    BY <1>6, <2>1, <2>2, PhaseFrom DEF AtEntry
<1>7. ASSUME tick'[s].phase = "loop", NEW e \in PendingFor(s, entries)' PROVE Right(e, tick[s].run, tick[s].deleted)'
  <2>1. CASE tick'[s] = tick[s]
    <3>1. TickIn(s, "loop")
      BY <1>7, <2>1 DEF TickIn
    <3>2. e \in Ids /\ Right(e, tick[s].run, tick[s].deleted)
      BY <1>2, <1>7, <3>1 DEF Reads
    <3> QED
      BY <1>3, <2>1, <3>2
  <2>2. CASE ReadRecords(s) /\ TickIn(s, "records") /\ tick'[s].run = records[s] /\ tick'[s].deleted = (turn[s] = "gone")
    <3>1. e \in PendingFor(s, entries) /\ e \in Ids /\ route[e].session = s
      BY <1>2, <1>7, <2>2 DEF PendingFor
    <3>2. turn[s] = "gone" \/ Over(e)
      BY <2>2, <3>1 DEF Reads
    <3>3. turnOf[e] # NotStarted => turnOf'[e] = turnOf[e]
      BY <3>1, TurnKept
    <3> QED
      BY <2>2, <3>1, <3>2, <3>3 DEF Right, Over, Prompt
  <2> QED
    BY <1>7, <2>1, <2>2, PhaseFrom DEF AtEntry
<1>8. ASSUME NEW e \in tick'[s].todo PROVE Right(e, tick[s].run, tick[s].deleted)'
  <2>1. tick'[s].phase \in AtEntry
    BY <1>5, <1>8
  <2>2. tick[s] # Asleep /\ tick'[s].run = tick[s].run /\ tick'[s].deleted = tick[s].deleted
    <3>1. ~ReadRecords(s)
      <4>1. ReadRecords(s) => tick'[s].phase = "loop"
        <5> SUFFICES ASSUME ReadRecords(s) PROVE tick'[s].phase = "loop"
          OBVIOUS
        <5>1. tick[s] \in Ticks
          BY <1>1 DEF ReadRecords, TickIn
        <5>2. tick'[s] = [tick[s] EXCEPT !.phase = "loop", !.run = records[s], !.deleted = (turn[s] = "gone")]
          BY <1>1 DEF ReadRecords
        <5> QED
          BY <5>1, <5>2 DEF Ticks
      <4> QED
        BY <2>1, <4>1 DEF AtEntry
    <3> QED
      BY <1>8, <3>1, TickReads
  <2>3. e \in Ids /\ Right(e, tick[s].run, tick[s].deleted)
    <3>1. CASE e \in tick[s].todo
      <4>1. tick[s] \in Ticks
        BY <1>1, <2>2
      <4>2. e \in Ids
        BY <3>1, <4>1 DEF Ticks
      <4> QED
        BY <2>2, <3>1, <4>2 DEF Reads
    <3>2. CASE TickIn(s, "loop") /\ e \in PendingFor(s, entries)
      BY <3>2 DEF Reads, PendingFor, Typed
    <3> QED
      BY <1>8, <3>1, <3>2, TodoFrom
  <2> QED
    BY <1>3, <2>2, <2>3
<1> QED
  BY <1>5, <1>6, <1>7, <1>8

\* What is sent is right.
LEMMA SentRightStep ==
  ASSUME ~Happens("startsLater"), Typed, Looks, Bounded, Prompt, Started, Reads, SentRight, [Next]_vars
  PROVE  SentRight'
<1>1. ASSUME NEW s \in Sessions, TickIn(s, "request")
      PROVE  /\ RequestOf(s).id = At(s) /\ At(s) \in Ids
             /\ Right(At(s), RequestOf(s).run, RequestOf(s).deleted)
  <2>1. At(s) \in tick[s].todo /\ At(s) \in Ids /\ tick[s] # Asleep
    BY <1>1, RequestType DEF TickIn
  <2>2. RequestOf(s).id = At(s) /\ RequestOf(s).run = tick[s].run /\ RequestOf(s).deleted = tick[s].deleted
    BY DEF RequestOf, At
  <2>3. Right(At(s), tick[s].run, tick[s].deleted)
    BY <2>1 DEF Reads
  <2> QED
    BY <2>1, <2>2, <2>3
<1>2. \A e \in Ids : \A run, deleted : Right(e, run, deleted) => Right(e, run, deleted)'
  BY RightStays
<1>3. ASSUME NEW r \in network' PROVE Right(r.id, r.run, r.deleted)'
  <2>1. CASE r \in network
    <3>1. r.id \in Ids /\ Right(r.id, r.run, r.deleted)
      BY <2>1 DEF SentRight, Typed, Sent
    <3> QED
      BY <1>2, <3>1
  <2>2. ASSUME NEW s \in Sessions, TickIn(s, "request"), r = RequestOf(s) PROVE Right(r.id, r.run, r.deleted)'
    <3>1. r.id \in Ids /\ Right(r.id, r.run, r.deleted)
      BY <1>1, <2>2
    <3> QED
      BY <1>2, <3>1
  <2> QED
    BY <2>1, <2>2, SentFrom
<1>4. ASSUME NEW e \in Ids, NEW n \in DOMAIN admitted'[e], NEW r, r = admitted'[e][n]
      PROVE  Right(e, r.run, r.deleted)'
  <2>1. CASE n \in DOMAIN admitted[e] /\ r = admitted[e][n]
    BY <1>2, <2>1 DEF SentRight
  <2>2. CASE r \in network /\ r.id = e
    BY <1>2, <2>2 DEF SentRight
  <2>3. ASSUME NEW s \in Sessions, TickIn(s, "request"), r = RequestOf(s), e = At(s) PROVE Right(e, r.run, r.deleted)'
    BY <1>1, <1>2, <2>3
  <2> QED
    BY <1>4, <2>1, <2>2, <2>3, SentFrom
<1>5. ASSUME NEW e \in Ids, NEW n \in DOMAIN admitted'[e]
      PROVE  Right(e, admitted[e][n].run, admitted[e][n].deleted)'
  BY <1>4 DEF Right
<1> QED
  BY <1>3, <1>5 DEF SentRight, Right

LEMMA AnswerStep ==
  ASSUME ~Happens("trails"), ~Happens("startsLater"), AnswerInv, [Next]_vars, Typed', Looks', RegistersApart
  PROVE  AnswerInv'
<1> USE DEF AnswerInv
<1>1. Stopped' /\ Bounded' /\ Registered' /\ DeletedGone'
  BY StoppedStep, BoundedStep, RegisteredStep, DeletedStays
<1>2. Prompt' /\ Started' /\ WorkedOn'
  BY PromptStep, StartedStep, WorkedOnStep
<1>3. Reads' /\ SentRight'
  BY ReadsStep, SentRightStep
<1> QED
  BY <1>1, <1>2, <1>3

LEMMA AnswerBegins ==
  ASSUME Init, Typed, Looks
  PROVE  AnswerInv
<1>1. TypeInv
  BY TypeBegins
<1>2. Registered /\ DeletedGone
  BY DEF Init, Registered, DeletedGone
<1>3. Prompt /\ Started /\ WorkedOn
  BY DEF Init, Prompt, Started, WorkedOn, Announced
<1>4. Reads /\ SentRight
  BY DEF Init, Reads, SentRight, TickIn
<1> QED
  BY <1>1, <1>2, <1>3, <1>4 DEF AnswerInv, TypeInv

LEMMA AnswerFollows ==
  ASSUME AnswerInv
  PROVE  AnswersTheDispatch
<1>1. ASSUME NEW e \in Ids PROVE DOMAIN admitted[e] = 1 .. Len(admitted[e])
  BY DEF AnswerInv, Typed
<1> QED
  BY <1>1 DEF AnswersTheDispatch, AnswerInv, SentRight, Right

\* The answer that is delivered is that of a run that had the dispatched prompt,
\* as long as no result is registered between the reads of a tick and its loop:
\* what was read before is not the answer to a prompt admitted since.
THEOREM AnswersApartCorrect ==
  ASSUME ~Happens("trails"), ~Happens("startsLater")
  PROVE  Spec /\ [][RegistersApart]_vars => []AnswersTheDispatch
<1>1. Init /\ Typed /\ Looks => AnswerInv
  BY AnswerBegins
<1>2. AnswerInv /\ [Next]_vars /\ (Typed /\ Looks)' /\ [RegistersApart]_vars => AnswerInv'
  <2> SUFFICES ASSUME AnswerInv, [Next]_vars, Typed', Looks', [RegistersApart]_vars PROVE AnswerInv'
    OBVIOUS
  <2>1. CASE UNCHANGED vars
    <3>1. UNCHANGED stage
      BY <2>1 DEF vars, dispatch
    <3> QED
      BY <3>1, AnswerStep DEF RegistersApart
  <2>2. CASE RegistersApart
    BY <2>2, AnswerStep
  <2> QED
    BY <2>1, <2>2
<1>3. AnswerInv => AnswersTheDispatch
  BY AnswerFollows
<1> QED
  BY <1>1, <1>2, <1>3, TypedCorrect, PTL DEF Spec

\* A session that is watched has been dispatched to.
LEMMA MineStep ==
  ASSUME Typed, Looks, Stopped, Registered, Mine, [Next]_vars
  PROVE  Mine'
<1> SUFFICES ASSUME NEW s \in Sessions, tick'[s] # Asleep
             PROVE  \E e \in Ids : route'[e].session = s /\ stage'[e] \in LateStages
  BY DEF Mine
<1>1. \E e \in Ids : route[e].session = s /\ stage[e] \in LateStages
  <2>1. CASE tick[s] # Asleep
    BY <2>1 DEF Mine
  <2>2. CASE TickBegins(s)
    <3>1. PendingFor(s, entries) # {}
      BY <2>2 DEF TickBegins
    <3>2. PICK e \in entries : route[e].session = s
      BY <3>1 DEF PendingFor
    <3> QED
      BY <3>2 DEF Registered, Typed
  <2> QED
    BY <2>1, <2>2, TickReads DEF ReadRecords, TickIn
<1> QED
  BY <1>1, AdmittedStays, StagesLast

\* And so it is, whenever results are registered, when no session is dispatched
\* to twice.
THEOREM AnswersOnceCorrect ==
  ASSUME ~Happens("trails"), ~Happens("startsLater")
  PROVE  Spec /\ DispatchedOnce => []AnswersTheDispatch
<1> DEFINE Inv == AnswerInv /\ Mine /\ DispatchedOnce
<1>1. Init /\ DispatchedOnce /\ Typed /\ Looks => Inv
  <2>1. Init => Mine
    BY DEF Init, Mine
  <2> QED
    BY <2>1, AnswerBegins
<1>2. Inv /\ [Next]_vars /\ (Typed /\ Looks)' => Inv'
  <2> SUFFICES ASSUME Inv, [Next]_vars, Typed', Looks' PROVE Inv'
    OBVIOUS
  <2>1. RegistersApart
    <3> SUFFICES ASSUME NEW e \in Ids, stage[e] = "prompted", tick[route[e].session] # Asleep PROVE FALSE
      BY DEF RegistersApart, TickIn
    <3>1. route[e].session \in Sessions
      BY DEF AnswerInv, Typed
    <3>2. PICK f \in Ids : route[f].session = route[e].session /\ stage[f] \in LateStages
      BY <3>1 DEF Mine
    <3> QED
      BY <3>2 DEF DispatchedOnce, LateStages, Announced
  <2>2. AnswerInv'
    BY <2>1, AnswerStep
  <2>3. Mine'
    BY MineStep DEF AnswerInv
  <2>4. DispatchedOnce'
    <3>1. UNCHANGED route
      BY AdmittedStays DEF AnswerInv
    <3> QED
      BY <3>1 DEF DispatchedOnce
  <2> QED
    BY <2>2, <2>3, <2>4
<1>3. Inv => AnswersTheDispatch
  BY AnswerFollows
<1> QED
  BY <1>1, <1>2, <1>3, TypedCorrect, PTL DEF Spec
=============================================================================
