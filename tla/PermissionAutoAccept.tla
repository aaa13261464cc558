------------------------- MODULE PermissionAutoAccept -------------------------
(***************************************************************************)
(* Permission requests that the server answers for the user                *)
(* (packages/web/server/lib/permission-auto-accept/runtime.js), with the   *)
(* client that keeps a request out of sight while the server may answer it *)
(* (packages/ui/src/sync/sync-context.tsx, stores/permissionStore.ts).     *)
(*                                                                         *)
(* The mode of a session is the nearest explicit one up its lineage.  All  *)
(* sessions are in one directory.  The safety net and OpenCode are         *)
(* external.                                                               *)
(***************************************************************************)
EXTENDS Naturals, Sequences, FiniteSets, SequencesExt

CONSTANTS
  Sessions, Requests,
  Lineage,      \* of a session: itself, its parent, and so on
  SessionOf,    \* the session that asks
  DefaultMode,  \* permissionDefaultMode
  Behaviours,   \* the optional steps that happen
  MAX_ATTEMPTS, \* RETRY_DELAYS_MS
  MaxChanges,   \* bound: modes the user sets
  MaxFaults,    \* bound: steps that go wrong, of all kinds together
  MaxSteps      \* bound: the former and the latter together

Modes == {"ask", "safety", "auto"}
Unset == "unset"

ASSUME PermissionBounds ==
  /\ Lineage \in [Sessions -> Seq(Sessions) \ {<<>>}]
  /\ \A s \in Sessions : Head(Lineage[s]) = s
  /\ \A s \in Sessions : \A i \in DOMAIN Lineage[s] :
       Lineage[Lineage[s][i]] = SubSeq(Lineage[s], i, Len(Lineage[s]))
  /\ SessionOf \in [Requests -> Sessions]
  /\ DefaultMode \in Modes
  /\ MAX_ATTEMPTS \in Nat \ {0} /\ MaxChanges \in Nat /\ MaxFaults \in Nat
  /\ MaxSteps \in Nat

VARIABLES
  \* OpenCode
  existing,   \* sessions
  state,      \* of a request: "no", "open", or who answered: "server", "user"
  \* the server
  mode,       \* policy.sessions, which the settings file holds as well
  writes,     \* writePromise: the updates that wait, the first being written
  poisoned,   \* writePromise is rejected
  defaulting, \* sessions whose default mode is being looked up
  known,      \* sessions whose record is cached
  work,       \* inFlight: what is being done about a request
  listing,    \* reconciliations that read the pending list
  awaited,    \* requests a reconciliation waits for
  upstream,   \* the hub receives OpenCode's events
  \* the client
  connected,
  stream,     \* messages on their way to it
  cmode,      \* modes
  shown,      \* requests on its screen
  held,       \* permissionsAwaitingAutoAnswer
  booting,    \* isRecentBoot
  resync,     \* a re-read of what is pending: none, asked for, or answered with a list
  \* history
  chosen,     \* the mode the user has set last, once it is in the file
  authorised, \* requests that the policy let the server answer, at some time
  told,       \* requests left for the user
  missed,     \* open requests that no reconciliation will look at
  overlooked, \* requests that a re-read did not show, or took from the screen
  changes, faults

openCode == <<existing, state>>
policy   == <<mode, writes, poisoned, defaulting, chosen>>
pending  == <<work, listing, awaited, told, missed>>
reading  == <<booting, resync, overlooked>>
client   == <<connected, cmode, shown, held, booting, resync, overlooked>>
vars     == <<openCode, policy, known, pending, upstream, client, stream, authorised,
              changes, faults>>

Keys == {"directory", "all"}
Idle == [phase |-> "none"]
Delayed == [phase : {"delayed"}, attempt : 2 .. MAX_ATTEMPTS]
Resolving == [phase : {"resolving"}, waits : Nat, attempt : 1 .. MAX_ATTEMPTS]
Acting == [phase : {"looking", "evaluating", "replying"}, at : Nat, attempt : 1 .. MAX_ATTEMPTS]
Update == [session : Sessions, mode : Modes, isDefault : BOOLEAN]
Policies == [Sessions -> Modes \cup {Unset}]
Messages == [type : {"asked", "replied", "left"}, request : Requests]
            \cup [type : {"updated"}, modes : Policies] \cup [type : {"ready"}]
NotRead == [phase |-> "no"]
ToBeRead == [phase |-> "asked"]
Lists == [phase : {"answered"}, sessions : SUBSET Sessions, listed : SUBSET Requests,
          before : SUBSET Requests]

Open == {r \in Requests : state[r] = "open"}

\* The requests, the policy and what is being done about them; only what is
\* still unanswered or has just been is on the screen.
TypeOK ==
  /\ existing \subseteq Sessions
  /\ state \in [Requests -> {"no", "open", "server", "user"}]
  /\ mode \in Policies /\ cmode \in Policies /\ chosen \in Policies
  /\ writes \in Seq(Update)
  /\ poisoned \in BOOLEAN /\ (poisoned => writes = <<>>)
  /\ defaulting \subseteq existing /\ known \subseteq existing
  /\ work \in [Requests -> {Idle} \cup Delayed \cup Resolving \cup Acting]
  /\ listing \subseteq Keys /\ awaited \in [Keys -> SUBSET Requests]
  /\ \A k \in Keys : \A r \in awaited[k] : work[r] # Idle
  /\ upstream \in BOOLEAN /\ connected \in BOOLEAN
  /\ stream \in Seq(Messages)
  /\ shown \subseteq Requests /\ held \subseteq Requests
  /\ \A r \in shown \cup held : state[r] # "no"
  /\ booting \in BOOLEAN /\ resync \in {NotRead, ToBeRead} \cup Lists
  /\ overlooked \subseteq Requests
  /\ authorised \subseteq Requests /\ told \subseteq Requests /\ missed \subseteq Requests
  /\ changes \in 0 .. MaxChanges /\ faults \in 0 .. MaxFaults

Happens(behaviour) == behaviour \in Behaviours

GoesWrong(behaviour) ==
  /\ Happens(behaviour) /\ faults < MaxFaults /\ changes + faults < MaxSteps
  /\ faults' = faults + 1

\* The nearest explicit mode.
Effective(modes, s) ==
  LET explicit == {i \in DOMAIN Lineage[s] : modes[Lineage[s][i]] # Unset}
  IN  IF explicit = {} THEN "ask"
      ELSE modes[Lineage[s][CHOOSE i \in explicit : \A j \in explicit : i <= j]]

AutoAnswering(modes, r) == Effective(modes, SessionOf[r]) # "ask"

Authorises == authorised' = authorised \cup
                {r \in Requests : state'[r] = "open" /\ AutoAnswering(mode', r)}

\* The server has just started from its file, before any session or with all.
Init ==
  /\ existing \in {{}, Sessions}
  /\ state = [r \in Requests |-> "no"]
  /\ mode \in [Sessions -> IF existing = {} THEN {Unset} ELSE Modes \cup {Unset}]
  /\ cmode = mode /\ chosen = mode
  /\ writes = <<>> /\ poisoned = FALSE /\ defaulting = {}
  /\ known = {} /\ work = [r \in Requests |-> Idle]
  /\ listing = {} /\ awaited = [k \in Keys |-> {}]
  /\ upstream = TRUE /\ connected = TRUE /\ stream = <<>>
  /\ shown = {} /\ held = {} /\ resync = NotRead /\ overlooked = {}
  /\ booting = ("boot" \in Behaviours)
  /\ authorised = {} /\ told = {} /\ missed = {} /\ changes = 0 /\ faults = 0

Post(messages) == stream' = IF connected THEN stream \o messages ELSE stream

About(type, r) == <<[type |-> type, request |-> r]>>

-----------------------------------------------------------------------------
(* One request: processPermission and replyOnce, await by await *)

\* Mutant: it waits for none.
BegunAtOnce(attempt) == [phase |-> "resolving", waits |-> 0, attempt |-> attempt]

\* resolveLineageMode waits for the writes that are queued by now.
Begun(attempt) == [phase |-> "resolving", waits |-> Len(writes), attempt |-> attempt]

\* The work of a set of requests begins, unless it is under way.
Working(requests) ==
  [r \in Requests |-> IF r \in requests /\ work[r] = Idle THEN Begun(1) ELSE work[r]]

\* Mutant: a reconciliation goes on waiting.
EndsUnnoticed(r) ==
  /\ work' = [work EXCEPT ![r] = Idle]
  /\ UNCHANGED <<listing, awaited, missed>>

\* The work of a request ends, for whatever waits for it.
Ends(r) ==
  /\ work' = [work EXCEPT ![r] = Idle]
  /\ awaited' = [k \in Keys |-> awaited[k] \ {r}]
  /\ UNCHANGED <<listing, missed>>

Continues(r, phase, at) ==
  /\ work' = [work EXCEPT ![r] = [phase |-> phase, at |-> at, attempt |-> work[r].attempt]]
  /\ UNCHANGED <<listing, awaited, told, missed>>

\* Mutant: the farthest explicit mode wins.
StopsFarthest(s, i) ==
  LET ahead == i .. Len(Lineage[s])
      unknown == {j \in ahead : Lineage[s][j] \notin known}
      explicit == {j \in ahead : mode[Lineage[s][j]] # Unset}
  IN  IF unknown # {} /\ explicit = {} THEN CHOOSE j \in unknown : \A k \in unknown : j <= k
      ELSE IF explicit = {} THEN 0 ELSE CHOOSE j \in explicit : \A k \in explicit : j >= k

\* Where the walk up the lineage stops: at an explicit mode, or at a session
\* that has to be looked up; 0 beyond its end.
Stops(s, i) ==
  LET ahead == {j \in i .. Len(Lineage[s]) :
                  mode[Lineage[s][j]] # Unset \/ Lineage[s][j] \notin known}
  IN  IF ahead = {} THEN 0 ELSE CHOOSE j \in ahead : \A k \in ahead : j <= k

\* The request goes on from the i-th session of its lineage.
Walks(r, i) ==
  LET s == SessionOf[r]
      j == Stops(s, i)
      found == IF j = 0 THEN "ask" ELSE mode[Lineage[s][j]]
  IN  \/ found = "ask" /\ Ends(r) /\ UNCHANGED told
      \/ found = "safety" /\ Continues(r, "evaluating", j)
      \/ found = "auto" /\ Continues(r, "replying", j)
      \/ found = Unset /\ Continues(r, "looking", j)

Retry(r) ==
  /\ work[r].phase = "delayed"
  /\ work' = [work EXCEPT ![r] = Begun(@.attempt)]
  /\ UNCHANGED <<openCode, policy, known, listing, awaited, told, missed, upstream, client,
                 stream, authorised, changes, faults>>

Resolve(r) ==
  /\ work[r].phase = "resolving"
  /\ poisoned \/ work[r].waits = 0
  /\ Walks(r, 1)
  /\ UNCHANGED <<openCode, policy, known, upstream, client, stream, authorised, changes, faults>>

\* getSession; then the parent.
LookUp(r) ==
  /\ work[r].phase = "looking"
  /\ known' = known \cup {Lineage[SessionOf[r]][work[r].at]}
  /\ Walks(r, work[r].at + 1)
  /\ UNCHANGED <<openCode, policy, upstream, client, stream, authorised, changes, faults>>

Accepted(r) ==
  /\ work[r].phase = "evaluating"
  /\ Continues(r, "replying", work[r].at)
  /\ UNCHANGED <<openCode, policy, known, upstream, client, stream, authorised, changes, faults>>

\* What is not answered for the user is broadcast.
LeftForUser(r) ==
  /\ Ends(r)
  /\ told' = told \cup {r}
  /\ Post(About("left", r))

Held(r) ==
  /\ work[r].phase = "evaluating"
  /\ LeftForUser(r)
  /\ UNCHANGED <<openCode, policy, known, upstream, client, authorised, changes, faults>>

\* OpenCode takes the answer, of a request that is still open.
Answer(r, by) ==
  IF state[r] = "open"
  THEN state' = [state EXCEPT ![r] = by] /\ (IF upstream THEN Post(About("replied", r))
                                             ELSE UNCHANGED stream)
  ELSE UNCHANGED <<state, stream>>

\* The reply, or 404 for what has been answered before.
Replied(r) ==
  /\ work[r].phase = "replying"
  /\ Answer(r, "server")
  /\ Ends(r) /\ UNCHANGED told
  /\ UNCHANGED <<existing, policy, known, upstream, client, authorised, changes, faults>>

\* Mutant: the last failure is not reported.
GivesUpSilently(r) == Ends(r) /\ UNCHANGED <<told, stream>>

\* No attempt is left.
GivesUp(r) == LeftForUser(r)

\* A lookup or a reply fails: the whole is tried again.
Fails(r) ==
  \/ work[r].phase = "looking" /\ GoesWrong("lookupFails")
  \/ work[r].phase = "replying" /\ GoesWrong("replyFails")

AttemptFails(r) ==
  /\ Fails(r)
  /\ \/ /\ work[r].attempt < MAX_ATTEMPTS
        /\ work' = [work EXCEPT ![r] = [phase |-> "delayed", attempt |-> @.attempt + 1]]
        /\ UNCHANGED <<listing, awaited, told, missed, stream>>
     \/ work[r].attempt = MAX_ATTEMPTS /\ GivesUp(r)
  /\ UNCHANGED <<openCode, policy, known, upstream, client, authorised, changes>>

\* The reply is taken and its response lost.
ResponseLost(r) ==
  /\ work[r].phase = "replying" /\ work[r].attempt < MAX_ATTEMPTS
  /\ GoesWrong("responseLost")
  /\ Answer(r, "server")
  /\ work' = [work EXCEPT ![r] = [phase |-> "delayed", attempt |-> @.attempt + 1]]
  /\ UNCHANGED <<existing, policy, known, listing, awaited, told, missed, upstream, client,
                 authorised, changes>>

-----------------------------------------------------------------------------
(* Reconciliation *)

Running(k) == k \in listing \/ awaited[k] # {}

\* reconcilePending: one that runs is joined.
Reconcile(k) ==
  IF Running(k) THEN missed' = missed \cup Open /\ UNCHANGED listing
  ELSE listing' = listing \cup {k} /\ UNCHANGED missed

\* What is being done about the request may not see the policy as it will be
\* with the writes that are queued.
MayMissWrites(r) ==
  \/ work[r].phase \in {"looking", "evaluating", "replying"}
  \/ work[r].phase = "resolving" /\ work[r].waits < Len(writes)

\* The pending requests are looked at, but for those that already are.
Listed(k) ==
  /\ k \in listing
  /\ listing' = listing \ {k}
  /\ work' = Working(Open)
  /\ awaited' = [awaited EXCEPT ![k] = Open]
  /\ missed' = {r \in Open : MayMissWrites(r)}
  /\ UNCHANGED <<openCode, policy, known, told, upstream, client, stream, authorised,
                 changes, faults>>

\* The list cannot be read, and is not read again.
ListFails(k) ==
  /\ k \in listing /\ GoesWrong("listFails")
  /\ listing' = listing \ {k}
  /\ missed' = missed \cup Open
  /\ UNCHANGED <<openCode, policy, known, work, awaited, told, upstream, client, stream,
                 authorised, changes>>

-----------------------------------------------------------------------------
(* The policy *)

Queue(update) == writes' = Append(writes, update)

Waits(w) == w.phase = "resolving" /\ w.waits > 0

\* One write less to wait for.
WaitsLess(w) == IF Waits(w) THEN [w EXCEPT !.waits = @ - 1] ELSE w

\* Mutant: a default replaces a mode that was set meanwhile.
UpdatedAlways(modes, update) == [modes EXCEPT ![update.session] = update.mode]

\* A default never replaces a mode.
Updated(modes, update) ==
  IF update.isDefault /\ modes[update.session] # Unset THEN modes
  ELSE [modes EXCEPT ![update.session] = update.mode]

\* What the user has chosen, once the update is in the file.
Chosen(update) ==
  IF update.isDefault THEN chosen ELSE [chosen EXCEPT ![update.session] = update.mode]

\* No session loses the mode that answers for it when a change takes effect.
KeepsAnswering(update) ==
  LET before == FoldLeft(Updated, mode, writes) IN
  \A s \in Sessions : Effective(before, s) # "ask" => Effective(Updated(before, update), s) # "ask"

\* setSessionPolicy, on behalf of a user.
UserSets(s, m) ==
  /\ changes < MaxChanges /\ changes + faults < MaxSteps /\ ~poisoned /\ s \in existing /\ m # mode[s]
  /\ LET update == [session |-> s, mode |-> m, isDefault |-> FALSE] IN
     /\ Happens("turnOff") \/ KeepsAnswering(update)
     /\ Queue(update)
  /\ changes' = changes + 1
  /\ UNCHANGED <<openCode, mode, poisoned, defaulting, chosen, known, pending, upstream,
                 client, stream, authorised, faults>>

\* applyDefaultMode: the settings have been read.  What is open by now was asked
\* too early to wait for the default.
DefaultRead(s) ==
  /\ s \in defaulting
  /\ defaulting' = defaulting \ {s}
  /\ IF DefaultMode = "ask" \/ poisoned THEN UNCHANGED <<writes, missed>>
     ELSE /\ Queue([session |-> s, mode |-> DefaultMode, isDefault |-> TRUE])
          /\ missed' = missed \cup Open
  /\ UNCHANGED <<openCode, mode, poisoned, chosen, known, work, listing, awaited, told,
                 upstream, client, stream, authorised, changes, faults>>

\* persistUpdate: written, in force, broadcast; then what is pending is looked
\* at again, if the user has set a mode that answers.  A walk that waits for no
\* write begins before the next one can end.
WriteEnds ==
  /\ writes # <<>>
  /\ \A r \in Requests : work[r].phase = "resolving" => Waits(work[r])
  /\ LET update == Head(writes) IN
     /\ mode' = Updated(mode, update) /\ chosen' = Chosen(update)
     /\ Post(<<[type |-> "updated", modes |-> mode']>>)
     /\ IF update.isDefault \/ update.mode = "ask" THEN UNCHANGED <<listing, missed>>
        ELSE Reconcile("directory")
  /\ writes' = Tail(writes)
  /\ work' = [r \in Requests |-> WaitsLess(work[r])]
  /\ UNCHANGED <<openCode, poisoned, defaulting, known, awaited, told, upstream,
                 client, changes, faults>>
  /\ Authorises

\* A write fails: so does every later one.
WriteFails ==
  /\ writes # <<>> /\ GoesWrong("writeFails")
  /\ poisoned' = TRUE /\ writes' = <<>>
  /\ UNCHANGED <<openCode, mode, defaulting, chosen, known, pending, upstream,
                 client, stream, authorised, changes>>

-----------------------------------------------------------------------------
(* OpenCode, as the hub reports it *)

\* A session is created, seen by the hub or not; a top-level one that is seen
\* gets the default mode.
Create(s) ==
  /\ s \notin existing
  /\ upstream \/ Happens("createdUnseen")
  /\ \A i \in DOMAIN Lineage[s] : i > 1 => Lineage[s][i] \in existing
  /\ existing' = existing \cup {s}
  /\ IF upstream
     THEN /\ known' = known \cup {s}
          /\ defaulting' = IF Len(Lineage[s]) = 1 /\ mode[s] = Unset THEN defaulting \cup {s}
                           ELSE defaulting
     ELSE UNCHANGED <<known, defaulting>>
  /\ UNCHANGED <<state, mode, writes, poisoned, chosen, pending, upstream, client,
                 stream, authorised, changes, faults>>

Ask(r) ==
  /\ state[r] = "no" /\ SessionOf[r] \in existing
  /\ state' = [state EXCEPT ![r] = "open"]
  /\ IF upstream THEN work' = Working({r}) /\ Post(About("asked", r))
     ELSE UNCHANGED <<work, stream>>
  /\ UNCHANGED <<existing, policy, known, listing, awaited, told, missed, upstream, client,
                 changes, faults>>
  /\ Authorises

UpstreamBreaks ==
  /\ upstream /\ GoesWrong("upstreamBreaks")
  /\ upstream' = FALSE
  /\ UNCHANGED <<openCode, policy, known, pending, client, stream, authorised, changes>>

\* To a client that is connected this is a fresh ready.
UpstreamConnects ==
  /\ ~upstream
  /\ upstream' = TRUE
  /\ Reconcile("all")
  /\ Post(<<[type |-> "ready"]>>)
  /\ UNCHANGED <<openCode, policy, known, work, awaited, told, client, authorised, changes,
                 faults>>

\* The server starts again, from its file, which the write under way has
\* reached or not.
Restart ==
  /\ GoesWrong("restart")
  /\ \/ UNCHANGED <<mode, chosen>>
     \/ /\ writes # <<>>
        /\ mode' = Updated(mode, Head(writes)) /\ chosen' = Chosen(Head(writes))
  /\ writes' = <<>> /\ poisoned' = FALSE /\ defaulting' = {}
  /\ known' = {} /\ work' = [r \in Requests |-> Idle]
  /\ listing' = {"all"} /\ awaited' = [k \in Keys |-> {}]
  /\ connected' = FALSE /\ stream' = <<>>
  /\ UNCHANGED <<openCode, told, missed, upstream, cmode, shown, held, reading, changes>>
  /\ Authorises

-----------------------------------------------------------------------------
(* The client *)

\* Mutant: a request that the safety net left is not shown.
ReceiveLeftIgnored(r) == UNCHANGED <<shown, held>>

ReceiveLeft(r) ==
  IF r \in held THEN shown' = shown \cup {r} /\ held' = held \ {r}
  ELSE UNCHANGED <<shown, held>>

\* holdBackUntilAutoAnswered.
ReceiveAsked(r) ==
  IF AutoAnswering(cmode, r) THEN held' = held \cup {r} /\ UNCHANGED shown
  ELSE shown' = shown \cup {r} /\ UNCHANGED held

ReceiveReplied(r) == shown' = shown \ {r} /\ held' = held \ {r}

AboutIn(type, messages) ==
  {m.request : m \in {n \in Range(messages) : n.type = type}}

\* What the client has still coming with these messages: a request that it is
\* told of, or one that it holds back and the server works on or has left.
Coming(messages) ==
  AboutIn("asked", messages)
    \cup {r \in held : work[r] # Idle \/ r \in AboutIn("left", messages)}

\* What it hears nothing more of, unless it is to hear of another connection.
Unheard(messages) ==
  IF ~connected \/ ~upstream \/ \E m \in Range(messages) : m.type = "ready" THEN {}
  ELSE Open \ (shown \cup Coming(messages))

\* After a gap the client reads the pending requests again, not the policy:
\* unless it is booting and its replay was not reset, or a re-read is under way.
\* One that OpenCode has still to answer will do; one that it has answered does
\* not have what the gap hid.
ReceiveReady ==
  /\ booting' \in {booting, FALSE}
  /\ \/ booting' /\ UNCHANGED resync
     \/ resync' = IF resync.phase = "answered" THEN resync ELSE ToBeRead
  /\ overlooked' = IF resync' = ToBeRead THEN overlooked
                   ELSE overlooked \cup Unheard(Tail(stream))

Receive ==
  /\ stream # <<>>
  /\ stream' = Tail(stream)
  /\ LET m == Head(stream) IN
     \/ m.type = "asked" /\ ReceiveAsked(m.request) /\ UNCHANGED <<cmode, reading>>
     \/ m.type = "left" /\ ReceiveLeft(m.request) /\ UNCHANGED <<cmode, reading>>
     \/ m.type = "replied" /\ ReceiveReplied(m.request) /\ UNCHANGED <<cmode, reading>>
     \/ m.type = "updated" /\ cmode' = m.modes /\ UNCHANGED <<shown, held, reading>>
     \/ m.type = "ready" /\ ReceiveReady /\ UNCHANGED <<cmode, shown, held>>
  /\ UNCHANGED <<openCode, policy, known, pending, upstream, connected, authorised, changes,
                 faults>>

UserReplies(r) ==
  /\ r \in shown /\ state[r] = "open"
  /\ Answer(r, "user")
  /\ UNCHANGED <<existing, policy, known, pending, upstream, client, authorised, changes, faults>>

\* The watchdog finds the stream or a status stale and asks for a re-read.
StaleStatus ==
  /\ resync = NotRead /\ GoesWrong("staleStatus")
  /\ resync' = ToBeRead
  /\ UNCHANGED <<openCode, policy, known, pending, upstream, connected, cmode, shown, held, booting,
                 overlooked, stream, authorised, changes>>

\* OpenCode lists what is pending, in these sessions.
Answered(sessions) ==
  /\ resync = ToBeRead
  /\ resync' = [phase |-> "answered", sessions |-> sessions, before |-> shown,
                listed |-> {r \in Open : SessionOf[r] \in sessions}]
  /\ overlooked' = overlooked \cup {r \in Unheard(stream) : SessionOf[r] \notin sessions}
  /\ UNCHANGED <<openCode, policy, known, pending, upstream, connected, cmode, shown, held, booting,
                 stream, authorised, changes>>

ReadAnswered == Answered(Sessions) /\ UNCHANGED faults

\* The read fails, or leaves out sessions that are not active, and is not
\* repeated.
ReadFails == GoesWrong("readFails") /\ \E sessions \in SUBSET Sessions : Answered(sessions)

AskedBy(requests, s) == {r \in requests : SessionOf[r] = s}

\* The list replaces what the client shows of the sessions it speaks of, though
\* it may have heard of more meanwhile; the others it clears unless they have
\* changed since.
ReadApplied ==
  /\ resync.phase = "answered"
  /\ resync' = NotRead
  /\ LET replaced == {s \in resync.sessions :
                        \/ AskedBy(resync.listed, s) # {}
                        \/ AskedBy(shown, s) = AskedBy(resync.before, s)}
     IN  shown' = resync.listed \cup {r \in shown : SessionOf[r] \notin replaced}
  /\ overlooked' = (overlooked \cup (Open \cap shown)) \ shown'
  /\ UNCHANGED <<openCode, policy, known, pending, upstream, connected, cmode, held, booting,
                 stream, authorised, changes, faults>>

Disconnect ==
  /\ connected /\ GoesWrong("disconnect")
  /\ connected' = FALSE /\ stream' = <<>>
  /\ UNCHANGED <<openCode, policy, known, pending, upstream, cmode, shown, held, reading,
                 authorised, changes>>

ClientConnects ==
  /\ ~connected /\ upstream
  /\ connected' = TRUE
  /\ stream' = <<[type |-> "ready"]>>
  /\ UNCHANGED <<openCode, policy, known, pending, upstream, cmode, shown, held, reading,
                 authorised, changes, faults>>

-----------------------------------------------------------------------------
Processing(r) == Retry(r) \/ Resolve(r) \/ LookUp(r) \/ Accepted(r) \/ Held(r) \/ Replied(r)

Next ==
  \/ \E r \in Requests : \/ Ask(r) \/ UserReplies(r)
                         \/ Processing(r) \/ AttemptFails(r) \/ ResponseLost(r)
  \/ \E s \in Sessions : Create(s) \/ DefaultRead(s) \/ \E m \in Modes : UserSets(s, m)
  \/ \E k \in Keys : Listed(k) \/ ListFails(k)
  \/ WriteEnds \/ WriteFails \/ UpstreamBreaks \/ UpstreamConnects \/ Restart
  \/ Receive \/ Disconnect \/ ClientConnects
  \/ StaleStatus \/ ReadAnswered \/ ReadFails \/ ReadApplied

Spec == Init /\ [][Next]_vars

\* Requests and writes settle, and what is broken is connected again.
Fairness ==
  /\ \A r \in Requests : WF_vars(Processing(r))
  /\ \A k \in Keys : WF_vars(Listed(k))
  /\ WF_vars(WriteEnds) /\ WF_vars(Receive)
  /\ WF_vars(UpstreamConnects) /\ WF_vars(ClientConnects)
  /\ WF_vars(ReadAnswered) /\ WF_vars(ReadApplied)

LiveSpec == Spec /\ Fairness

-----------------------------------------------------------------------------
(* Properties *)

Settled ==
  /\ connected /\ upstream /\ stream = <<>> /\ writes = <<>> /\ defaulting = {}
  /\ listing = {} /\ \A r \in Requests : work[r] = Idle
  /\ resync = NotRead

\* A request that nobody answers any more is on the screen, unless the re-read
\* for it was skipped, dropped, failed or stale.
NoHiddenRequest == Settled => Open \subseteq shown \cup overlooked

\* The server answers only what the policy let it answer at some time since it
\* was asked: a mode pieced together from two states of the policy does not.
RepliesAuthorised == \A r \in Requests : state[r] = "server" => r \in authorised

\* A session keeps the mode its user has set, whatever default is written when,
\* and across restarts.
ChosenModeKept == \A s \in Sessions : chosen[s] # Unset => mode[s] = chosen[s]

\* In an auto session nothing stays open but what was left for the user, or was
\* missed by the last look at the pending list.
AutoLeavesNothing ==
  Settled => \A r \in Open : Effective(mode, SessionOf[r]) = "auto" => r \in told \cup missed

\* Every request is answered, or shown to somebody who can, unless the re-read
\* for it was skipped, dropped, failed or stale.
EventuallyAttended ==
  \A r \in Requests : state[r] = "open" ~> (state[r] # "open" \/ r \in shown \cup overlooked)
=============================================================================
