---------------------- MODULE PermissionAutoAcceptProofs ----------------------
(***************************************************************************)
(* Theorems about PermissionAutoAccept, for any family of sessions, any     *)
(* requests and any bounds: its types, and that a mode its user has set is  *)
(* replaced by no default and lost by no restart.                           *)
(***************************************************************************)
EXTENDS PermissionAutoAccept, SequenceTheorems, WellFoundedInduction, TLAPS

Work == {Idle} \cup Delayed \cup Resolving \cup Acting

-----------------------------------------------------------------------------
(* What the types rest on *)

\* A session's ancestors exist.
Ancestry == \A s \in existing : \A i \in DOMAIN Lineage[s] : Lineage[s][i] \in existing

\* What is worked on or spoken of has been asked, by a session that exists.
Asked ==
  /\ \A r \in Requests : work[r] # Idle => state[r] # "no"
  /\ \A r \in Requests : state[r] # "no" => SessionOf[r] \in existing
  /\ \A r \in Requests : resync.phase = "answered" /\ r \in resync.listed => state[r] # "no"
  /\ \A i \in DOMAIN stream : stream[i].type \notin {"updated", "ready"} => state[stream[i].request] # "no"

\* A walk is at a place of its lineage.
Placed ==
  \A r \in Requests : work[r] \in Acting => work[r].at \in DOMAIN Lineage[SessionOf[r]]

\* What the server is doing is well typed.
PendingOK ==
  /\ work \in [Requests -> Work] /\ Placed
  /\ listing \subseteq Keys /\ awaited \in [Keys -> SUBSET Requests]
  /\ \A k \in Keys : \A r \in awaited[k] : work[r] # Idle
  /\ told \subseteq Requests /\ missed \subseteq Requests
  /\ \A r \in Requests : work[r] # Idle => state[r] # "no"

\* The stream speaks of requests that have been asked.
StreamOK ==
  /\ stream \in Seq(Messages)
  /\ \A i \in DOMAIN stream : stream[i].type \notin {"updated", "ready"} => state[stream[i].request] # "no"

TypeInv == TypeOK /\ Ancestry /\ Asked /\ Placed

-----------------------------------------------------------------------------
(* Walks *)

\* Some number of a set is the least.
LEMMA Least ==
  ASSUME NEW T \in SUBSET Nat, T # {}
  PROVE  \E j \in T : \A k \in T : j <= k
<1> DEFINE less == {p \in Nat \X Nat : p[1] < p[2]}
<1>1. IsWellFoundedOn(less, Nat)
  BY NatLessThanWellFounded DEF OpToRel
<1> HIDE DEF less
<1>2. PICK j \in T : \A k \in T : ~ (<<k, j>> \in less)
  BY <1>1, WFMin
<1>3. \A k \in T : ~ (k < j)
  BY <1>2 DEF less
<1> QED
  BY <1>3

\* A walk stops within the lineage, or finds nothing.
LEMMA StopsWithin ==
  ASSUME NEW s \in Sessions, NEW i \in Nat \ {0}
  PROVE  Stops(s, i) = 0 \/ Stops(s, i) \in DOMAIN Lineage[s]
<1> DEFINE ahead == {j \in i .. Len(Lineage[s]) :
                       mode[Lineage[s][j]] # Unset \/ Lineage[s][j] \notin known}
<1>1. Lineage[s] \in Seq(Sessions)
  BY PermissionBounds
<1>2. ahead \in SUBSET Nat /\ ahead \subseteq DOMAIN Lineage[s]
  BY <1>1
<1>3. CASE ahead = {}
  BY <1>3 DEF Stops
<1>4. CASE ahead # {}
  <2>1. \E j \in ahead : \A k \in ahead : j <= k
    BY <1>2, <1>4, Least
  <2>2. (CHOOSE j \in ahead : \A k \in ahead : j <= k) \in ahead
    BY <2>1
  <2>3. Stops(s, i) = CHOOSE j \in ahead : \A k \in ahead : j <= k
    BY <1>4 DEF Stops
  <2> QED
    BY <1>2, <2>2, <2>3
<1> QED
  BY <1>3, <1>4

\* The phases are told apart by their names.
LEMMA WorkPhases ==
  ASSUME NEW w \in Work
  PROVE  /\ w = Idle <=> w.phase = "none"
         /\ w \in Delayed <=> w.phase = "delayed"
         /\ w \in Resolving <=> w.phase = "resolving"
         /\ w \in Acting <=> w.phase \in {"looking", "evaluating", "replying"}
BY DEF Work, Idle, Delayed, Resolving, Acting

\* The end of the work of a request is well typed.
LEMMA EndsType ==
  ASSUME TypeInv, NEW r \in Requests, Ends(r), told' \subseteq Requests,
         \A q \in Requests : state[q] # "no" => state'[q] # "no"
  PROVE  PendingOK'
<1>1. work' \in [Requests -> Work]
  BY DEF TypeInv, TypeOK, Ends, Work
<1>2. \A q \in Requests : work'[q] = work[q] \/ work'[q] = Idle
  BY DEF TypeInv, TypeOK, Ends
<1>3. Placed'
  BY <1>2, WorkPhases DEF TypeInv, Placed, Work, Idle, Acting
<1>4. /\ awaited' \in [Keys -> SUBSET Requests]
      /\ \A k \in Keys : \A q \in awaited'[k] : work'[q] # Idle
  BY DEF TypeInv, TypeOK, Ends
<1> QED
  BY <1>1, <1>2, <1>3, <1>4 DEF PendingOK, TypeInv, TypeOK, Asked, Ends

\* A request that goes on at a place of its lineage is well typed.
LEMMA ContinuesType ==
  ASSUME TypeInv, NEW r \in Requests, work[r] \in Resolving \cup Acting,
         NEW phase \in {"looking", "evaluating", "replying"},
         NEW at \in DOMAIN Lineage[SessionOf[r]], Continues(r, phase, at), UNCHANGED state
  PROVE  PendingOK'
<1> DEFINE w == [phase |-> phase, at |-> at, attempt |-> work[r].attempt]
<1>1. at \in Nat
  BY PermissionBounds
<1>2. w \in Acting /\ w # Idle /\ work[r] # Idle
  BY <1>1 DEF Acting, Resolving, Idle
<1>3. work' = [work EXCEPT ![r] = w]
  BY DEF Continues
<1>4. work' \in [Requests -> Work]
  BY <1>2, <1>3 DEF TypeInv, TypeOK, Work
<1>5. Placed'
  BY <1>2, <1>3 DEF TypeInv, TypeOK, Placed
<1> QED
  BY <1>2, <1>3, <1>4, <1>5 DEF PendingOK, TypeInv, TypeOK, Asked, Continues

\* A walk leaves what the server is doing well typed.
LEMMA WalksType ==
  ASSUME TypeInv, NEW r \in Requests, work[r] \in Resolving \cup Acting,
         NEW i \in Nat \ {0}, Walks(r, i), UNCHANGED state
  PROVE  PendingOK'
<1> DEFINE j == Stops(SessionOf[r], i)
           found == IF j = 0 THEN "ask" ELSE mode[Lineage[SessionOf[r]][j]]
<1>1. SessionOf[r] \in Sessions
  BY PermissionBounds
<1>2. j = 0 \/ j \in DOMAIN Lineage[SessionOf[r]]
  BY <1>1, StopsWithin
<1>3. CASE found = "ask" /\ Ends(r) /\ UNCHANGED told
  BY <1>3, EndsType DEF TypeInv, TypeOK
<1>4. ASSUME NEW phase \in {"looking", "evaluating", "replying"}, found # "ask", Continues(r, phase, j)
      PROVE  PendingOK'
  BY <1>2, <1>4, ContinuesType
<1> QED
  BY <1>3, <1>4 DEF Walks, Unset

\* Work that begins, for requests that have been asked, is well typed.
LEMMA WorkingType ==
  ASSUME TypeInv, NEW requests \in SUBSET Requests, work' = Working(requests),
         \A r \in requests : state'[r] # "no", \A r \in Requests : state[r] # "no" => state'[r] # "no"
  PROVE  /\ work' \in [Requests -> Work] /\ Placed'
         /\ \A r \in Requests : work[r] # Idle \/ r \in requests => work'[r] # Idle
         /\ \A r \in Requests : work'[r] # Idle => state'[r] # "no"
<1>1. Len(writes) \in Nat
  BY DEF TypeInv, TypeOK
<1>2. Begun(1) \in Resolving
  BY <1>1, PermissionBounds DEF Begun, Resolving
<1>3. Begun(1) # Idle /\ Begun(1) \notin Acting
  BY DEF Begun, Idle, Acting
<1>4. work' \in [Requests -> Work]
  BY <1>2 DEF TypeInv, TypeOK, Working, Work
<1>5. Placed'
  BY <1>3 DEF TypeInv, TypeOK, Placed, Working
<1> QED
  BY <1>3, <1>4, <1>5 DEF TypeInv, TypeOK, Working, Asked

\* Waiting for one write less leaves the work well typed.
LEMMA WaitsLessType ==
  ASSUME NEW w \in Work
  PROVE  /\ WaitsLess(w) \in Work
         /\ WaitsLess(w) = Idle <=> w = Idle
         /\ WaitsLess(w) \in Acting => WaitsLess(w) = w
<1>1. CASE Waits(w)
  <2>1. w \in Resolving /\ w.waits \in Nat \ {0}
    BY <1>1, WorkPhases DEF Waits, Resolving
  <2>2. WaitsLess(w) = [phase |-> "resolving", waits |-> w.waits - 1, attempt |-> w.attempt]
    BY <1>1, <2>1 DEF WaitsLess, Resolving
  <2>3. WaitsLess(w) \in Resolving
    BY <2>1, <2>2 DEF Resolving
  <2> QED
    BY <2>1, <2>2, <2>3, WorkPhases DEF Work
<1>2. CASE ~Waits(w)
  BY <1>2 DEF WaitsLess
<1> QED
  BY <1>1, <1>2

-----------------------------------------------------------------------------
(* Messages, answers and updates *)

\* A message about what has been asked, or about the modes, keeps the stream in
\* order.
LEMMA PostType ==
  ASSUME TypeInv, NEW m \in Messages, Post(<<m>>) \/ UNCHANGED stream,
         m.type \notin {"updated", "ready"} => state'[m.request] # "no",
         \A r \in Requests : state[r] # "no" => state'[r] # "no"
  PROVE  StreamOK'
<1>1. \A i \in DOMAIN stream : stream[i] \in Messages
  BY DEF TypeInv, TypeOK
<1>2. \A i \in DOMAIN stream : stream[i].type \notin {"updated", "ready"} => stream[i].request \in Requests
  BY <1>1 DEF Messages
<1>3. CASE UNCHANGED stream
  BY <1>2, <1>3 DEF TypeInv, TypeOK, Asked, StreamOK
<1>4. CASE stream' = stream \o <<m>>
  BY <1>2, <1>4 DEF TypeInv, TypeOK, Asked, StreamOK
<1> QED
  BY <1>3, <1>4 DEF Post

\* An answer is one to what has been asked.
LEMMA AnswerType ==
  ASSUME TypeInv, NEW r \in Requests, NEW by \in {"server", "user"}, Answer(r, by), state[r] # "no"
  PROVE  /\ state' \in [Requests -> {"no", "open", "server", "user"}]
         /\ \A q \in Requests : state'[q] = "no" <=> state[q] = "no"
         /\ StreamOK'
<1>1. state' \in [Requests -> {"no", "open", "server", "user"}]
  BY DEF TypeInv, TypeOK, Answer
<1>2. \A q \in Requests : state'[q] = "no" <=> state[q] = "no"
  BY DEF TypeInv, TypeOK, Answer
<1>3. [type |-> "replied", request |-> r] \in Messages
  BY DEF Messages
<1>4. Post(<<[type |-> "replied", request |-> r]>>) \/ UNCHANGED stream
  BY DEF Answer, About
<1>5. StreamOK'
  BY <1>2, <1>3, <1>4, PostType
<1> QED
  BY <1>1, <1>2, <1>5

\* An update, once in the file, leaves policies.
LEMMA UpdatedType ==
  ASSUME NEW modes \in Policies, NEW update \in Update, chosen \in Policies
  PROVE  Updated(modes, update) \in Policies /\ Chosen(update) \in Policies
BY DEF Policies, Update, Modes, Updated, Chosen

\* A request that is left for its user is well typed.
LEMMA LeftType ==
  ASSUME TypeInv, NEW r \in Requests, work[r] # Idle, LeftForUser(r), UNCHANGED state
  PROVE  PendingOK' /\ StreamOK'
<1>1. state[r] # "no"
  BY DEF TypeInv, Asked
<1>2. PendingOK'
  BY EndsType DEF LeftForUser, TypeInv, TypeOK
<1>3. [type |-> "left", request |-> r] \in Messages
  BY DEF Messages
<1>4. StreamOK'
  BY <1>1, <1>3, PostType DEF LeftForUser, About
<1> QED
  BY <1>2, <1>4

-----------------------------------------------------------------------------
(* Types *)

\* Every reachable state is well typed, and speaks only of requests that were
\* asked and sessions that exist.
THEOREM TypeInvCorrect == Spec => []TypeInv
<1>1. Init => TypeInv
  <2> SUFFICES ASSUME Init PROVE TypeInv
    OBVIOUS
  <2> USE PermissionBounds DEF Init
  <2>1. Ancestry /\ Asked /\ Placed
    BY DEF Ancestry, Asked, Placed, Idle, Acting, NotRead
  <2>2. mode \in Policies /\ cmode \in Policies /\ chosen \in Policies
    BY DEF Policies
  <2>3. work \in [Requests -> {Idle} \cup Delayed \cup Resolving \cup Acting]
    OBVIOUS
  <2>4. writes \in Seq(Update) /\ stream \in Seq(Messages)
    OBVIOUS
  <2>5. existing \subseteq Sessions /\ state \in [Requests -> {"no", "open", "server", "user"}]
    OBVIOUS
  <2>6. awaited \in [Keys -> SUBSET Requests] /\ \A k \in Keys : awaited[k] = {}
    OBVIOUS
  <2>7. changes \in 0 .. MaxChanges /\ faults \in 0 .. MaxFaults
    OBVIOUS
  <2>8. /\ poisoned = FALSE /\ writes = <<>> /\ upstream \in BOOLEAN /\ connected \in BOOLEAN
        /\ defaulting = {} /\ known = {} /\ listing = {} /\ shown = {} /\ held = {}
        /\ authorised = {} /\ told = {} /\ missed = {}
        /\ booting \in BOOLEAN /\ resync = NotRead /\ overlooked = {}
    OBVIOUS
  <2> QED
    BY ONLY <2>1, <2>2, <2>3, <2>4, <2>5, <2>6, <2>7, <2>8 DEF TypeInv, TypeOK
<1>2. TypeInv /\ [Next]_vars => TypeInv'
  <2> SUFFICES ASSUME TypeInv, [Next]_vars PROVE TypeInv'
    OBVIOUS
  <2> USE PermissionBounds
  \* One request.
  <2>1. ASSUME NEW r \in Requests, Retry(r) PROVE TypeInv'
    <3> DEFINE w == Begun(work[r].attempt)
    <3>1. work[r] \in Delayed
      BY <2>1, WorkPhases DEF Retry, TypeInv, TypeOK, Work
    <3>2. w \in Resolving /\ w # Idle /\ w \notin Acting /\ work[r] # Idle
      BY <3>1 DEF TypeInv, TypeOK, Begun, Resolving, Delayed, Idle, Acting
    <3>3. work' = [work EXCEPT ![r] = w]
      BY <2>1 DEF Retry
    <3> HIDE DEF w
    <3>4. work' \in [Requests -> Work] /\ Placed'
      BY <3>2, <3>3 DEF TypeInv, TypeOK, Placed, Work
    <3> QED
      BY <2>1, <3>2, <3>3, <3>4 DEF Retry, TypeInv, TypeOK, Ancestry, Asked, Work, openCode, policy, client
  <2>2. ASSUME NEW r \in Requests, Resolve(r) PROVE TypeInv'
    <3>1. work[r] \in Resolving /\ UNCHANGED state
      BY <2>2, WorkPhases DEF Resolve, TypeInv, TypeOK, Work, openCode
    <3>2. PendingOK'
      <4>1. Walks(r, 1) /\ 1 \in Nat \ {0}
        BY <2>2 DEF Resolve
      <4> QED
        BY <3>1, <4>1, WalksType
    <3> QED
      BY <2>2, <3>2 DEF Resolve, PendingOK, TypeInv, TypeOK, Ancestry, Asked, Work, openCode, policy, client
  <2>3. ASSUME NEW r \in Requests, LookUp(r) PROVE TypeInv'
    <3>1. work[r] \in Acting /\ UNCHANGED state
      BY <2>3, WorkPhases DEF LookUp, TypeInv, TypeOK, Work, openCode
    <3>2. work[r].at \in DOMAIN Lineage[SessionOf[r]] /\ work[r].at + 1 \in Nat \ {0}
      <4>1. work[r].at \in Nat
        BY <3>1 DEF Acting
      <4>2. work[r].at + 1 \in Nat \ {0}
        BY <4>1, SMT
      <4> QED
        BY <3>1, <4>2, Zenon DEF TypeInv, Placed
    <3>3. PendingOK'
      BY <2>3, <3>1, <3>2, WalksType DEF LookUp
    <3>4. SessionOf[r] \in existing
      BY <3>1, WorkPhases DEF TypeInv, TypeOK, Asked, Work, Idle, Acting
    <3>5. known' \subseteq existing
      BY <2>3, <3>2, <3>4 DEF LookUp, TypeInv, TypeOK, Ancestry
    <3> QED
      BY <2>3, <3>3, <3>5 DEF LookUp, PendingOK, TypeInv, TypeOK, Ancestry, Asked, Work, openCode, policy, client
  <2>4. ASSUME NEW r \in Requests, Accepted(r) PROVE TypeInv'
    <3>1. work[r] \in Acting /\ UNCHANGED state
      BY <2>4, WorkPhases DEF Accepted, TypeInv, TypeOK, Work, openCode
    <3>2. work[r].at \in DOMAIN Lineage[SessionOf[r]]
      BY <3>1 DEF TypeInv, Placed
    <3>3. PendingOK'
      BY <2>4, <3>1, <3>2, ContinuesType DEF Accepted
    <3> QED
      BY <2>4, <3>3 DEF Accepted, PendingOK, TypeInv, TypeOK, Ancestry, Asked, Work, openCode, policy, client
  <2>5. ASSUME NEW r \in Requests, Held(r) PROVE TypeInv'
    <3>1. work[r] # Idle /\ UNCHANGED state
      BY <2>5 DEF Held, Idle, openCode
    <3>2. PendingOK' /\ StreamOK'
      BY <2>5, <3>1, LeftType DEF Held
    <3> QED
      BY <2>5, <3>2 DEF Held, PendingOK, StreamOK, TypeInv, TypeOK, Ancestry, Asked, Work, openCode, policy, client
  <2>6. ASSUME NEW r \in Requests, Replied(r) PROVE TypeInv'
    <3>1. work[r] # Idle /\ state[r] # "no"
      BY <2>6 DEF Replied, Idle, TypeInv, Asked
    <3>2. /\ state' \in [Requests -> {"no", "open", "server", "user"}]
          /\ \A q \in Requests : state'[q] = "no" <=> state[q] = "no"
          /\ StreamOK'
      BY <2>6, <3>1, AnswerType DEF Replied
    <3>3. PendingOK'
      BY <2>6, <3>2, EndsType DEF Replied, TypeInv, TypeOK
    <3> QED
      BY <2>6, <3>2, <3>3 DEF Replied, PendingOK, StreamOK, TypeInv, TypeOK, Ancestry, Asked, Work, policy, client
  <2>7. ASSUME NEW r \in Requests, AttemptFails(r) PROVE TypeInv'
    <3>1. work[r] \in Acting /\ UNCHANGED state
      BY <2>7, WorkPhases DEF AttemptFails, Fails, TypeInv, TypeOK, Work, openCode
    <3>2. faults' \in 0 .. MaxFaults
      BY <2>7 DEF AttemptFails, Fails, GoesWrong, TypeInv, TypeOK
    <3>3. CASE work[r].attempt < MAX_ATTEMPTS /\ UNCHANGED <<listing, awaited, told, missed, stream>>
               /\ work' = [work EXCEPT ![r] = [phase |-> "delayed", attempt |-> work[r].attempt + 1]]
      <4> DEFINE w == [phase |-> "delayed", attempt |-> work[r].attempt + 1]
      <4>1. w \in Delayed /\ w # Idle /\ w \notin Acting /\ work[r] # Idle
        BY <3>1, <3>3 DEF Acting, Delayed, Idle
      <4>2. work' = [work EXCEPT ![r] = w]
        BY <3>3
      <4> HIDE DEF w
      <4>3. work' \in [Requests -> Work] /\ Placed'
        BY <4>1, <4>2 DEF TypeInv, TypeOK, Placed, Work
      <4> QED
        BY <2>7, <3>2, <3>3, <4>1, <4>2, <4>3 DEF AttemptFails, TypeInv, TypeOK, Ancestry, Asked, Work, openCode, policy, client
    <3>4. CASE GivesUp(r)
      <4>1. PendingOK' /\ StreamOK'
        BY <3>1, <3>4, LeftType DEF GivesUp, Idle, Acting
      <4> QED
        BY <2>7, <3>2, <4>1 DEF AttemptFails, PendingOK, StreamOK, TypeInv, TypeOK, Ancestry, Asked, Work, openCode, policy, client
    <3> QED
      BY <2>7, <3>3, <3>4 DEF AttemptFails
  <2>8. ASSUME NEW r \in Requests, ResponseLost(r) PROVE TypeInv'
    <3> DEFINE w == [phase |-> "delayed", attempt |-> work[r].attempt + 1]
    <3>1. work[r] \in Acting
      BY <2>8, WorkPhases DEF ResponseLost, TypeInv, TypeOK, Work
    <3>2. w \in Delayed /\ w # Idle /\ w \notin Acting /\ work[r] # Idle
      BY <2>8, <3>1 DEF ResponseLost, Acting, Delayed, Idle
    <3>3. work' = [work EXCEPT ![r] = w]
      BY <2>8 DEF ResponseLost
    <3> HIDE DEF w
    <3>4. work' \in [Requests -> Work] /\ Placed'
      BY <3>2, <3>3 DEF TypeInv, TypeOK, Placed, Work
    <3>5. state[r] # "no"
      BY <3>2 DEF TypeInv, Asked
    <3>6. /\ state' \in [Requests -> {"no", "open", "server", "user"}]
          /\ \A q \in Requests : state'[q] = "no" <=> state[q] = "no"
          /\ StreamOK'
      BY <2>8, <3>5, AnswerType DEF ResponseLost
    <3>7. faults' \in 0 .. MaxFaults
      BY <2>8 DEF ResponseLost, GoesWrong, TypeInv, TypeOK
    <3> QED
      BY <2>8, <3>2, <3>3, <3>4, <3>5, <3>6, <3>7 DEF ResponseLost, StreamOK, TypeInv, TypeOK, Ancestry, Asked, Work, policy, client
  \* Reconciliation.
  <2>9. ASSUME NEW k \in Keys, Listed(k) PROVE TypeInv'
    <3>1. Open \in SUBSET Requests /\ \A r \in Open : state[r] # "no"
      BY DEF Open
    <3>2. UNCHANGED state /\ work' = Working(Open)
      BY <2>9 DEF Listed, openCode
    <3>3. /\ work' \in [Requests -> Work] /\ Placed'
          /\ \A r \in Requests : work[r] # Idle \/ r \in Open => work'[r] # Idle
          /\ \A r \in Requests : work'[r] # Idle => state'[r] # "no"
      BY <3>1, <3>2, WorkingType
    <3>4. /\ awaited' \in [Keys -> SUBSET Requests]
          /\ \A q \in Keys : \A r \in awaited'[q] : work'[r] # Idle
      BY <2>9, <3>1, <3>3 DEF Listed, TypeInv, TypeOK
    <3>5. missed' \subseteq Requests /\ listing' \subseteq Keys
      BY <2>9, <3>1 DEF Listed, TypeInv, TypeOK
    <3> QED
      BY <2>9, <3>3, <3>4, <3>5 DEF Listed, TypeInv, TypeOK, Ancestry, Asked, Work, openCode, policy, client
  <2>10. ASSUME NEW k \in Keys, ListFails(k) PROVE TypeInv'
    BY <2>10 DEF ListFails, GoesWrong, Open, TypeInv, TypeOK, Ancestry, Asked, Placed, openCode, policy, client
  \* The policy.
  <2>11. ASSUME NEW s \in Sessions, NEW m \in Modes, UserSets(s, m) PROVE TypeInv'
    <3>1. [session |-> s, mode |-> m, isDefault |-> FALSE] \in Update
      BY DEF Update
    <3>2. writes' \in Seq(Update) /\ ~poisoned
      BY <2>11, <3>1 DEF UserSets, Queue, TypeInv, TypeOK
    <3>3. changes' \in 0 .. MaxChanges
      BY <2>11 DEF UserSets, TypeInv, TypeOK
    <3> QED
      BY <2>11, <3>2, <3>3 DEF UserSets, TypeInv, TypeOK, Ancestry, Asked, Placed, openCode, pending, client
  <2>12. ASSUME NEW s \in Sessions, DefaultRead(s) PROVE TypeInv'
    <3>1. [session |-> s, mode |-> DefaultMode, isDefault |-> TRUE] \in Update
      BY DEF Update
    <3>2. writes' \in Seq(Update) /\ (poisoned => writes' = <<>>) /\ missed' \subseteq Requests
      <4>1. CASE DefaultMode = "ask" \/ poisoned
        BY <2>12, <4>1 DEF DefaultRead, TypeInv, TypeOK
      <4>2. CASE ~(DefaultMode = "ask" \/ poisoned)
        <5>1. writes' = Append(writes, [session |-> s, mode |-> DefaultMode, isDefault |-> TRUE])
          BY <2>12, <4>2 DEF DefaultRead, Queue
        <5> QED
          BY <2>12, <3>1, <4>2, <5>1 DEF DefaultRead, Open, TypeInv, TypeOK
      <4> QED
        BY <4>1, <4>2
    <3> QED
      BY <2>12, <3>2 DEF DefaultRead, TypeInv, TypeOK, Ancestry, Asked, Placed, openCode, client
  <2>13. CASE WriteEnds
    <3>1. Head(writes) \in Update /\ Tail(writes) \in Seq(Update) /\ ~poisoned
      BY <2>13 DEF WriteEnds, TypeInv, TypeOK
    <3>2. mode' \in Policies /\ chosen' \in Policies
      BY <2>13, <3>1, UpdatedType DEF WriteEnds, TypeInv, TypeOK
    <3>3. work' = [r \in Requests |-> WaitsLess(work[r])] /\ UNCHANGED <<state, awaited, told>>
      BY <2>13 DEF WriteEnds, openCode
    <3>4. work \in [Requests -> Work]
      BY DEF TypeInv, TypeOK, Work
    <3>5. /\ work' \in [Requests -> Work]
          /\ \A r \in Requests : work'[r] = Idle <=> work[r] = Idle
      BY <3>3, <3>4, WaitsLessType
    <3>6. Placed'
      BY <3>3, <3>4, WaitsLessType DEF TypeInv, Placed
    <3>7. [type |-> "updated", modes |-> mode'] \in Messages
      BY <3>2 DEF Messages
    <3>8. StreamOK'
      BY <2>13, <3>3, <3>7, PostType DEF WriteEnds
    <3>9. listing' \subseteq Keys /\ missed' \subseteq Requests
      BY <2>13 DEF WriteEnds, Reconcile, Keys, Open, TypeInv, TypeOK
    <3>10. authorised' \subseteq Requests
      BY <2>13 DEF WriteEnds, Authorises, TypeInv, TypeOK
    <3> QED
      BY <2>13, <3>1, <3>2, <3>3, <3>5, <3>6, <3>8, <3>9, <3>10
         DEF WriteEnds, StreamOK, TypeInv, TypeOK, Ancestry, Asked, Work, openCode, client
  <2>14. CASE WriteFails
    BY <2>14 DEF WriteFails, GoesWrong, TypeInv, TypeOK, Ancestry, Asked, Placed, openCode, pending, client
  \* OpenCode and the hub.
  <2>15. ASSUME NEW s \in Sessions, Create(s) PROVE TypeInv'
    <3>1. existing' = existing \cup {s} /\ existing' \subseteq Sessions
      BY <2>15 DEF Create, TypeInv, TypeOK
    <3>2. Lineage[s] \in Seq(Sessions) \ {<<>>} /\ Lineage[s][1] = s
      OBVIOUS
    <3>3. Ancestry'
      BY <2>15, <3>1, <3>2 DEF Create, TypeInv, TypeOK, Ancestry
    <3>4. defaulting' \subseteq existing' /\ known' \subseteq existing'
      BY <2>15, <3>1 DEF Create, TypeInv, TypeOK
    <3> QED
      BY <2>15, <3>1, <3>3, <3>4 DEF Create, TypeInv, TypeOK, Asked, Placed, pending, client
  <2>16. ASSUME NEW r \in Requests, Ask(r) PROVE TypeInv'
    <3>1. /\ state' = [state EXCEPT ![r] = "open"]
          /\ \A q \in Requests : state[q] # "no" => state'[q] # "no"
          /\ state'[r] # "no"
      BY <2>16 DEF Ask, TypeInv, TypeOK
    <3>2. [type |-> "asked", request |-> r] \in Messages
      BY DEF Messages
    <3>3. StreamOK'
      BY <2>16, <3>1, <3>2, PostType DEF Ask, About
    <3>4. /\ work' \in [Requests -> Work] /\ Placed'
          /\ \A q \in Requests : work[q] # Idle => work'[q] # Idle
          /\ \A q \in Requests : work'[q] # Idle => state'[q] # "no"
      <4>1. CASE work' = Working({r})
        <5>1. {r} \in SUBSET Requests /\ \A q \in {r} : state'[q] # "no"
          BY <3>1
        <5> QED
          BY <3>1, <4>1, <5>1, WorkingType
      <4>2. CASE UNCHANGED work
        BY <3>1, <4>2 DEF TypeInv, TypeOK, Asked, Placed, Work
      <4> QED
        BY <2>16, <4>1, <4>2 DEF Ask
    <3>5. authorised' \subseteq Requests
      BY <2>16 DEF Ask, Authorises, TypeInv, TypeOK
    <3>6. UNCHANGED <<existing, policy, known, listing, awaited, told, missed, upstream, client, changes, faults>>
      BY <2>16 DEF Ask
    <3>7. state' \in [Requests -> {"no", "open", "server", "user"}]
      BY <3>1 DEF TypeInv, TypeOK
    <3>8. \A q \in Requests : state'[q] # "no" => SessionOf[q] \in existing
      BY <2>16, <3>1 DEF Ask, TypeInv, TypeOK, Asked
    <3> QED
      BY <3>1, <3>3, <3>4, <3>5, <3>6, <3>7, <3>8 DEF StreamOK, TypeInv, TypeOK, Ancestry, Asked, Work, policy, client
  <2>17. ASSUME NEW r \in Requests, UserReplies(r) PROVE TypeInv'
    <3>1. state[r] # "no"
      BY <2>17 DEF UserReplies
    <3>2. /\ state' \in [Requests -> {"no", "open", "server", "user"}]
          /\ \A q \in Requests : state'[q] = "no" <=> state[q] = "no"
          /\ StreamOK'
      BY <2>17, <3>1, AnswerType DEF UserReplies
    <3> QED
      BY <2>17, <3>2 DEF UserReplies, StreamOK, TypeInv, TypeOK, Ancestry, Asked, Placed, policy, pending, client
  <2>18. CASE UpstreamBreaks
    <3>1. upstream' = FALSE /\ GoesWrong("upstreamBreaks")
      BY <2>18 DEF UpstreamBreaks
    <3>2. UNCHANGED <<openCode, policy, known, pending, client, stream, authorised, changes>>
      BY <2>18 DEF UpstreamBreaks
    <3>3. faults' \in 0 .. MaxFaults
      BY <3>1 DEF GoesWrong, TypeInv, TypeOK
    <3>4. upstream' \in BOOLEAN
      BY <3>1
    <3> QED
      BY <3>2, <3>3, <3>4 DEF TypeInv, TypeOK, Ancestry, Asked, Placed, openCode, policy, pending, client
  <2>19. CASE UpstreamConnects
    <3>1. listing' \subseteq Keys /\ missed' \subseteq Requests
      BY <2>19 DEF UpstreamConnects, Reconcile, Keys, Open, TypeInv, TypeOK
    <3>2. UNCHANGED <<openCode, policy, known, work, awaited, told, client, authorised, changes, faults>>
      BY <2>19 DEF UpstreamConnects
    <3>3. upstream' \in BOOLEAN
      BY <2>19 DEF UpstreamConnects
    <3>4. StreamOK'
      <4>1. [type |-> "ready"] \in Messages
        BY DEF Messages
      <4>2. Post(<<[type |-> "ready"]>>)
        BY <2>19 DEF UpstreamConnects
      <4> QED
        BY <3>2, <4>1, <4>2, PostType DEF openCode
    <3> QED
      BY <3>1, <3>2, <3>3, <3>4 DEF StreamOK, TypeInv, TypeOK, Ancestry, Asked, Placed, openCode, policy, client
  <2>20. CASE Restart
    <3>1. writes # <<>> => Head(writes) \in Update
      BY DEF TypeInv, TypeOK
    <3>2. mode' \in Policies /\ chosen' \in Policies
      BY <2>20, <3>1, UpdatedType DEF Restart, TypeInv, TypeOK
    <3>3. authorised' \subseteq Requests /\ faults' \in 0 .. MaxFaults
      BY <2>20 DEF Restart, GoesWrong, Authorises, TypeInv, TypeOK
    <3>4. work' \in [Requests -> {Idle} \cup Delayed \cup Resolving \cup Acting]
      BY <2>20 DEF Restart
    <3>5. Placed'
      BY <2>20 DEF Restart, Placed, Idle, Acting
    <3>6. poisoned' \in BOOLEAN /\ connected' \in BOOLEAN /\ writes' = <<>> /\ stream' = <<>>
      BY <2>20 DEF Restart
    <3>7. /\ defaulting' = {} /\ known' = {} /\ listing' \subseteq Keys
          /\ awaited' \in [Keys -> SUBSET Requests] /\ \A k \in Keys : awaited'[k] = {}
      BY <2>20 DEF Restart, Keys
    <3>8. \A r \in Requests : work'[r] = Idle
      BY <2>20 DEF Restart
    <3>9. UNCHANGED <<existing, state, told, missed, upstream, cmode, shown, held, booting, resync, overlooked,
                      changes>>
      BY <2>20 DEF Restart, openCode, reading
    <3>10. Asked'
      BY <3>6, <3>8, <3>9 DEF TypeInv, Asked
    <3> QED
      BY <3>2, <3>3, <3>4, <3>5, <3>6, <3>7, <3>9, <3>10 DEF TypeInv, TypeOK, Ancestry
  \* The client.
  <2>21. CASE Receive
    <3>1. Head(stream) \in Messages /\ Tail(stream) \in Seq(Messages)
      BY <2>21 DEF Receive, TypeInv, TypeOK
    <3>2. Head(stream) = stream[1] /\ 1 \in DOMAIN stream
      BY <2>21 DEF Receive, TypeInv, TypeOK
    <3>3. \A i \in DOMAIN Tail(stream) : Tail(stream)[i] = stream[i + 1] /\ i + 1 \in DOMAIN stream
      BY <2>21 DEF Receive, TypeInv, TypeOK
    <3>4. StreamOK'
      BY <2>21, <3>1, <3>3 DEF Receive, StreamOK, TypeInv, Asked, openCode
    <3>5. Head(stream).type \notin {"updated", "ready"} =>
            Head(stream).request \in Requests /\ state[Head(stream).request] # "no"
      BY <3>1, <3>2 DEF Messages, TypeInv, Asked
    <3>6. Head(stream).type = "updated" => Head(stream).modes \in Policies
      BY <3>1 DEF Messages
    <3>11. /\ booting' \in BOOLEAN /\ resync' \in {resync, ToBeRead}
           /\ overlooked' \subseteq Requests
      <4>1. Unheard(stream') \subseteq Requests
        BY DEF Unheard, Open
      <4> QED
        BY <2>21, <4>1 DEF Receive, ReceiveReady, reading, TypeInv, TypeOK
    <3>12. resync' \in {NotRead, ToBeRead} \cup Lists
      BY <3>11 DEF TypeInv, TypeOK
    <3>13. \A r \in Requests : resync'.phase = "answered" /\ r \in resync'.listed => state[r] # "no"
      BY <3>11 DEF TypeInv, Asked, ToBeRead
    <3>7. cmode' \in Policies
      BY <2>21, <3>6 DEF Receive, TypeInv, TypeOK
    <3>8. shown' \subseteq shown \cup {Head(stream).request} \/ UNCHANGED shown
      BY <2>21 DEF Receive, ReceiveAsked, ReceiveLeft, ReceiveReplied
    <3>9. held' \subseteq held \cup {Head(stream).request} \/ UNCHANGED held
      BY <2>21 DEF Receive, ReceiveAsked, ReceiveLeft, ReceiveReplied
    <3>10. Head(stream).type \in {"updated", "ready"} => UNCHANGED <<shown, held>>
      BY <2>21 DEF Receive
    <3>14. /\ shown' \subseteq Requests /\ held' \subseteq Requests
           /\ \A r \in shown' \cup held' : state[r] # "no"
      BY <3>5, <3>8, <3>9, <3>10 DEF TypeInv, TypeOK
    <3>15. UNCHANGED <<openCode, policy, known, pending, upstream, connected, authorised, changes, faults>>
      BY <2>21 DEF Receive
    <3> QED
      BY <3>4, <3>7, <3>11, <3>12, <3>13, <3>14, <3>15
         DEF StreamOK, TypeInv, TypeOK, Ancestry, Asked, Placed, openCode, policy, pending
  <2>22. CASE Disconnect
    <3>1. connected' = FALSE /\ stream' = <<>> /\ GoesWrong("disconnect")
      BY <2>22 DEF Disconnect
    <3>2. UNCHANGED <<openCode, policy, known, pending, upstream, cmode, shown, held, booting, resync, overlooked,
                      authorised, changes>>
      BY <2>22 DEF Disconnect, reading
    <3>3. faults' \in 0 .. MaxFaults
      BY <3>1 DEF GoesWrong, TypeInv, TypeOK
    <3>4. stream' \in Seq(Messages) /\ Len(stream') = 0
      BY <3>1
    <3>5. StreamOK'
      BY <3>4 DEF StreamOK
    <3>6. connected' \in BOOLEAN
      BY <3>1
    <3> QED
      BY <3>2, <3>3, <3>5, <3>6 DEF StreamOK, TypeInv, TypeOK, Ancestry, Asked, Placed, openCode, policy, pending
  <2>23. CASE ClientConnects
    <3> DEFINE m == [type |-> "ready"]
    <3>1. connected' = TRUE /\ stream' = <<m>>
      BY <2>23 DEF ClientConnects
    <3>2. UNCHANGED <<openCode, policy, known, pending, upstream, cmode, shown, held, booting, resync, overlooked,
                      authorised, changes, faults>>
      BY <2>23 DEF ClientConnects, reading
    <3>3. m \in Messages /\ m.type = "ready"
      BY DEF Messages
    <3> HIDE DEF m
    <3>4. StreamOK'
      BY <3>1, <3>3 DEF StreamOK
    <3> QED
      BY <3>1, <3>2, <3>4 DEF StreamOK, TypeInv, TypeOK, Ancestry, Asked, Placed, openCode, policy, pending
  \* Its re-reads.
  <2>24. CASE StaleStatus
    <3>1. resync' = ToBeRead /\ faults' \in 0 .. MaxFaults
      BY <2>24 DEF StaleStatus, GoesWrong, TypeInv, TypeOK
    <3>2. UNCHANGED <<openCode, policy, known, pending, upstream, connected, cmode, shown, held, booting,
                      overlooked, stream, authorised, changes>>
      BY <2>24 DEF StaleStatus
    <3>3. \A r \in Requests : resync'.phase = "answered" /\ r \in resync'.listed => state[r] # "no"
      BY <3>1 DEF ToBeRead
    <3> QED
      BY <3>1, <3>2, <3>3 DEF TypeInv, TypeOK, Ancestry, Asked, Placed, openCode, policy, pending
  <2>25. CASE ReadAnswered \/ ReadFails
    <3>1. faults' \in 0 .. MaxFaults
      BY <2>25 DEF ReadAnswered, ReadFails, GoesWrong, TypeInv, TypeOK
    <3>2. PICK sessions \in SUBSET Sessions : Answered(sessions)
      BY <2>25 DEF ReadAnswered, ReadFails
    <3>3. /\ resync' = [phase |-> "answered", sessions |-> sessions, before |-> shown,
                        listed |-> {r \in Open : SessionOf[r] \in sessions}]
          /\ overlooked' \subseteq Requests
      BY <3>2 DEF Answered, Unheard, Open, TypeInv, TypeOK
    <3>4. resync' \in Lists /\ \A r \in Requests : r \in resync'.listed => state[r] # "no"
      BY <3>3 DEF Lists, Open, TypeInv, TypeOK
    <3>5. UNCHANGED <<openCode, policy, known, pending, upstream, connected, cmode, shown, held, booting,
                      stream, authorised, changes>>
      BY <3>2 DEF Answered
    <3> HIDE DEF Lists
    <3> QED
      BY <3>1, <3>3, <3>4, <3>5 DEF TypeInv, TypeOK, Ancestry, Asked, Placed, openCode, policy, pending
  <2>26. CASE ReadApplied
    <3>1. resync' = NotRead /\ shown' \subseteq resync.listed \cup shown /\ resync.phase = "answered"
          /\ overlooked' \subseteq overlooked \cup Open
      BY <2>26 DEF ReadApplied
    <3>2. resync.listed \subseteq Requests
      BY <3>1 DEF TypeInv, TypeOK, Lists, NotRead, ToBeRead
    <3>3. shown' \subseteq Requests /\ \A r \in shown' : state[r] # "no"
      BY <3>1, <3>2 DEF TypeInv, TypeOK, Asked
    <3>4. overlooked' \subseteq Requests
      BY <3>1 DEF Open, TypeInv, TypeOK
    <3>5. UNCHANGED <<openCode, policy, known, pending, upstream, connected, cmode, held, booting,
                      stream, authorised, changes, faults>>
      BY <2>26 DEF ReadApplied
    <3>6. \A r \in Requests : resync'.phase = "answered" /\ r \in resync'.listed => state[r] # "no"
      BY <3>1 DEF NotRead
    <3> QED
      BY <3>1, <3>3, <3>4, <3>5, <3>6 DEF TypeInv, TypeOK, Ancestry, Asked, Placed, openCode, policy, pending
  <2>27. CASE UNCHANGED vars
    BY <2>27 DEF vars, TypeInv, TypeOK, Ancestry, Asked, Placed, openCode, policy, pending, client
  <2> QED
    BY <2>1, <2>2, <2>3, <2>4, <2>5, <2>6, <2>7, <2>8, <2>9, <2>10, <2>11, <2>12, <2>13, <2>14,
       <2>15, <2>16, <2>17, <2>18, <2>19, <2>20, <2>21, <2>22, <2>23, <2>24,
       <2>25, <2>26, <2>27 DEF Next, Processing
<1> QED
  BY <1>1, <1>2, PTL DEF Spec

\* The requests, the policy and what is being done about them are well typed.
THEOREM TypeCorrect == Spec => []TypeOK
BY TypeInvCorrect, PTL DEF TypeInv

-----------------------------------------------------------------------------
(* The modes users have set *)

\* An update changes the mode its user has set only to what it then is.
LEMMA UpdatedKeepsChosen ==
  ASSUME TypeOK, ChosenModeKept, NEW update \in Update,
         mode' = Updated(mode, update), chosen' = Chosen(update)
  PROVE  ChosenModeKept'
<1>1. CASE update.isDefault
  BY <1>1 DEF TypeOK, Policies, Update, Updated, Chosen, ChosenModeKept
<1>2. CASE ~update.isDefault
  BY <1>2 DEF TypeOK, Policies, Update, Updated, Chosen, ChosenModeKept
<1> QED
  BY <1>1, <1>2

\* A session keeps the mode its user has set, whatever default is written when,
\* and across restarts.
THEOREM ChosenModeKeptCorrect == Spec => []ChosenModeKept
<1>1. Init => ChosenModeKept
  BY DEF Init, ChosenModeKept
<1>2. TypeOK /\ ChosenModeKept /\ [Next]_vars => ChosenModeKept'
  <2> SUFFICES ASSUME TypeOK, ChosenModeKept, [Next]_vars PROVE ChosenModeKept'
    OBVIOUS
  <2>1. writes # <<>> => Head(writes) \in Update
    BY DEF TypeOK
  <2>2. CASE WriteEnds
    BY <2>1, <2>2, UpdatedKeepsChosen DEF WriteEnds
  <2>3. CASE Restart
    <3>1. CASE UNCHANGED <<mode, chosen>>
      BY <3>1 DEF ChosenModeKept
    <3>2. CASE writes # <<>> /\ mode' = Updated(mode, Head(writes)) /\ chosen' = Chosen(Head(writes))
      BY <2>1, <3>2, UpdatedKeepsChosen
    <3> QED
      BY <2>3, <3>1, <3>2 DEF Restart
  \* Nothing else writes the policy.
  <2>4. ASSUME ~WriteEnds, ~Restart PROVE UNCHANGED <<mode, chosen>>
    BY <2>4 DEF Next, Processing, Ask, UserReplies, Retry, Resolve, LookUp, Accepted, Held, Replied,
       AttemptFails, ResponseLost, Create, DefaultRead, UserSets, Listed, ListFails, WriteFails,
       UpstreamBreaks, UpstreamConnects, Receive, Disconnect, ClientConnects, StaleStatus, Answered,
       ReadAnswered, ReadFails, ReadApplied, policy, vars
  <2> QED
    BY <2>2, <2>3, <2>4 DEF ChosenModeKept
<1> QED
  BY <1>1, <1>2, TypeCorrect, PTL DEF Spec
=============================================================================
