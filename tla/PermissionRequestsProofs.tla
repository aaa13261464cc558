----------------------- MODULE PermissionRequestsProofs -----------------------
(***************************************************************************)
(* Theorems about what becomes of a request in PermissionAutoAccept, for   *)
(* any family of sessions, any requests and any bounds: an auto session    *)
(* leaves nothing open, what is answered was allowed, and what is not      *)
(* answered is shown.                                                      *)
(***************************************************************************)
EXTENDS PermissionAutoAcceptProofs

-----------------------------------------------------------------------------
(* The mode that answers for a session *)

Answers(modes, s) == Effective(modes, s) # "ask"

\* Nobody in the first places of a lineage has a mode.
UnsetUpTo(modes, s, n) == \A i \in DOMAIN Lineage[s] : i <= n => modes[Lineage[s][i]] = Unset

\* The nearest explicit mode is the one of a place.
Nearest(modes, s, p) ==
  /\ p \in DOMAIN Lineage[s] /\ modes[Lineage[s][p]] # Unset
  /\ \A i \in DOMAIN Lineage[s] : modes[Lineage[s][i]] # Unset => p <= i

LEMMA Lineages ==
  ASSUME NEW s \in Sessions
  PROVE  /\ Lineage[s] \in Seq(Sessions) /\ Len(Lineage[s]) \in Nat \ {0}
         /\ DOMAIN Lineage[s] = 1 .. Len(Lineage[s])
         /\ \A i \in DOMAIN Lineage[s] : Lineage[s][i] \in Sessions
         /\ Lineage[s][1] = s
BY PermissionBounds

\* Somebody in the lineage has a mode, of which the nearest answers, or the
\* user is asked.
LEMMA EffectiveCases ==
  ASSUME NEW s \in Sessions, NEW modes
  PROVE  \/ UnsetUpTo(modes, s, Len(Lineage[s])) /\ Effective(modes, s) = "ask"
         \/ \E p \in DOMAIN Lineage[s] :
              Nearest(modes, s, p) /\ Effective(modes, s) = modes[Lineage[s][p]]
<1> DEFINE explicit == {i \in DOMAIN Lineage[s] : modes[Lineage[s][i]] # Unset}
<1>1. explicit \in SUBSET Nat /\ explicit \subseteq DOMAIN Lineage[s]
  BY Lineages
<1>2. CASE explicit = {}
  <2>1. Effective(modes, s) = "ask"
    BY <1>2 DEF Effective
  <2> QED
    BY <1>2, <2>1 DEF UnsetUpTo
<1>3. CASE explicit # {}
  <2> DEFINE p == CHOOSE i \in explicit : \A j \in explicit : i <= j
  <2>1. \E i \in explicit : \A j \in explicit : i <= j
    BY <1>1, <1>3, Least
  <2>2. p \in explicit /\ \A j \in explicit : p <= j
    BY <2>1
  <2>3. Effective(modes, s) = modes[Lineage[s][p]]
    BY <1>3 DEF Effective
  <2>4. Nearest(modes, s, p)
    BY <2>2 DEF Nearest
  <2> QED
    BY <2>2, <2>3, <2>4
<1> QED
  BY <1>2, <1>3

\* One place is the nearest.
LEMMA NearestAnswers ==
  ASSUME NEW s \in Sessions, NEW modes, NEW p, Nearest(modes, s, p)
  PROVE  Effective(modes, s) = modes[Lineage[s][p]]
<1>1. PICK q \in DOMAIN Lineage[s] :
        Nearest(modes, s, q) /\ Effective(modes, s) = modes[Lineage[s][q]]
  BY EffectiveCases, Lineages DEF Nearest, UnsetUpTo
<1>2. p = q
  BY <1>1, Lineages DEF Nearest
<1> QED
  BY <1>1, <1>2

\* With modes in the first places only, none of them "ask", the session answers.
LEMMA AnswersByNearest ==
  ASSUME NEW s \in Sessions, NEW modes, NEW i \in DOMAIN Lineage[s], modes[Lineage[s][i]] # Unset,
         \A k \in DOMAIN Lineage[s] : k <= i => modes[Lineage[s][k]] # "ask"
  PROVE  Answers(modes, s)
<1>1. PICK p \in DOMAIN Lineage[s] :
        Nearest(modes, s, p) /\ Effective(modes, s) = modes[Lineage[s][p]]
  BY EffectiveCases, Lineages DEF UnsetUpTo
<1>2. p <= i
  BY <1>1 DEF Nearest
<1> QED
  BY <1>1, <1>2 DEF Answers

\* From a place of a lineage on, the first that has a mode answers.
Ahead(modes, s, n) ==
  \E p \in DOMAIN Lineage[s] :
    /\ p >= n /\ modes[Lineage[s][p]] \notin {Unset, "ask"}
    /\ \A i \in DOMAIN Lineage[s] : i >= n /\ modes[Lineage[s][i]] # Unset => p <= i

\* That is when the ancestor at the place answers, whose lineage is the rest.
LEMMA AheadAnswers ==
  ASSUME NEW s \in Sessions, NEW modes, NEW n \in DOMAIN Lineage[s]
  PROVE  Ahead(modes, s, n) <=> Answers(modes, Lineage[s][n])
<1> DEFINE a == Lineage[s][n]
<1>1. a \in Sessions /\ n \in Nat \ {0}
  BY Lineages
<1>2. Lineage[a] = SubSeq(Lineage[s], n, Len(Lineage[s]))
  BY PermissionBounds
<1>3. /\ Len(Lineage[a]) = Len(Lineage[s]) - n + 1
      /\ \A i \in DOMAIN Lineage[a] :
           Lineage[a][i] = Lineage[s][n + i - 1] /\ n + i - 1 \in DOMAIN Lineage[s]
  BY <1>1, <1>2, Lineages
<1>4. \A i \in DOMAIN Lineage[s] :
        i >= n => i - n + 1 \in DOMAIN Lineage[a] /\ Lineage[a][i - n + 1] = Lineage[s][i]
  <2> SUFFICES ASSUME NEW i \in DOMAIN Lineage[s], i >= n
               PROVE  i - n + 1 \in DOMAIN Lineage[a] /\ Lineage[a][i - n + 1] = Lineage[s][i]
    OBVIOUS
  <2>1. i - n + 1 \in DOMAIN Lineage[a] /\ n + (i - n + 1) - 1 = i
    BY <1>1, <1>3, Lineages
  <2> QED
    BY <1>3, <2>1
<1>5. ASSUME Answers(modes, a) PROVE Ahead(modes, s, n)
  <2>1. PICK q \in DOMAIN Lineage[a] :
          Nearest(modes, a, q) /\ Effective(modes, a) = modes[Lineage[a][q]]
    BY <1>1, <1>5, EffectiveCases DEF Answers
  <2>2. q \in Nat \ {0} /\ n + q - 1 \in DOMAIN Lineage[s] /\ n + q - 1 >= n
    BY <1>1, <1>3, <2>1, Lineages
  <2>3. modes[Lineage[s][n + q - 1]] \notin {Unset, "ask"}
    BY <1>3, <1>5, <2>1 DEF Nearest, Answers
  <2>4. ASSUME NEW i \in DOMAIN Lineage[s], i >= n, modes[Lineage[s][i]] # Unset PROVE n + q - 1 <= i
    <3>1. q <= i - n + 1
      BY <1>4, <2>1, <2>4 DEF Nearest
    <3> QED
      BY <1>1, <2>2, <3>1, Lineages
  <2> QED
    BY <2>2, <2>3, <2>4 DEF Ahead
<1>6. ASSUME Ahead(modes, s, n) PROVE Answers(modes, a)
  <2>1. PICK p \in DOMAIN Lineage[s] :
          /\ p >= n /\ modes[Lineage[s][p]] \notin {Unset, "ask"}
          /\ \A i \in DOMAIN Lineage[s] : i >= n /\ modes[Lineage[s][i]] # Unset => p <= i
    BY <1>6 DEF Ahead
  <2>2. p - n + 1 \in DOMAIN Lineage[a] /\ Lineage[a][p - n + 1] = Lineage[s][p]
    BY <1>4, <2>1
  <2>3. \A i \in DOMAIN Lineage[a] : modes[Lineage[a][i]] # Unset => p - n + 1 <= i
    <3> SUFFICES ASSUME NEW i \in DOMAIN Lineage[a], modes[Lineage[a][i]] # Unset
                 PROVE  p - n + 1 <= i
      OBVIOUS
    <3>1. n + i - 1 \in DOMAIN Lineage[s] /\ n + i - 1 >= n /\ i \in Nat
      BY <1>1, <1>3, Lineages
    <3>2. p <= n + i - 1
      BY <1>3, <2>1, <3>1
    <3> QED
      BY <1>1, <3>1, <3>2, Lineages
  <2>4. Nearest(modes, a, p - n + 1)
    BY <2>1, <2>2, <2>3 DEF Nearest
  <2> QED
    BY <1>1, <2>1, <2>2, <2>4, NearestAnswers DEF Answers
<1> QED
  BY <1>5, <1>6

-----------------------------------------------------------------------------
(* Walks *)

\* A walk stops at the first place that has a mode or is not known, or finds
\* nobody with a mode.
LEMMA StopsCases ==
  ASSUME NEW s \in Sessions, NEW i \in Nat \ {0}
  PROVE  \/ /\ Stops(s, i) = 0
            /\ \A k \in DOMAIN Lineage[s] : k >= i => mode[Lineage[s][k]] = Unset
         \/ /\ Stops(s, i) \in DOMAIN Lineage[s] /\ Stops(s, i) >= i
            /\ \A k \in DOMAIN Lineage[s] : k >= i /\ k < Stops(s, i) => mode[Lineage[s][k]] = Unset
<1> DEFINE ahead == {j \in i .. Len(Lineage[s]) :
                       mode[Lineage[s][j]] # Unset \/ Lineage[s][j] \notin known}
<1>1. ahead \in SUBSET Nat /\ ahead \subseteq DOMAIN Lineage[s] /\ \A j \in ahead : j >= i
  BY Lineages
<1>2. \A k \in DOMAIN Lineage[s] : k >= i /\ k \notin ahead => mode[Lineage[s][k]] = Unset
  BY Lineages
<1>3. CASE ahead = {}
  BY <1>2, <1>3 DEF Stops
<1>4. CASE ahead # {}
  <2>1. \E j \in ahead : \A k \in ahead : j <= k
    BY <1>1, <1>4, Least
  <2> DEFINE j == CHOOSE j \in ahead : \A k \in ahead : j <= k
  <2>2. j \in ahead /\ \A k \in ahead : j <= k
    BY <2>1
  <2>3. Stops(s, i) = j
    BY <1>4 DEF Stops
  <2>4. j \in Nat /\ \A k \in ahead : ~ (k < j)
    <3> HIDE DEF j, ahead
    <3> QED
      BY <1>1, <2>2
  <2> HIDE DEF j, ahead
  <2>5. \A k \in DOMAIN Lineage[s] : k >= i /\ k < j => k \notin ahead
    BY <2>4
  <2> QED
    BY <1>1, <1>2, <2>2, <2>3, <2>5
<1> QED
  BY <1>3, <1>4

\* What becomes of a request whose walk goes on: "ask" was found and nothing
\* is done, or it goes on at a place up to which nobody else had a mode.
LEMMA WalkCases ==
  ASSUME work \in [Requests -> Work], NEW r \in Requests, NEW i \in Nat \ {0}, Walks(r, i)
  PROVE  LET s == SessionOf[r] IN
         /\ UNCHANGED told /\ \A q \in Requests \ {r} : work'[q] = work[q]
         /\ \/ /\ work'[r] = Idle
               /\ \/ \A k \in DOMAIN Lineage[s] : k >= i => mode[Lineage[s][k]] = Unset
                  \/ \E j \in DOMAIN Lineage[s] :
                       /\ j >= i /\ mode[Lineage[s][j]] = "ask"
                       /\ \A k \in DOMAIN Lineage[s] : k >= i /\ k < j => mode[Lineage[s][k]] = Unset
            \/ \E j \in DOMAIN Lineage[s] :
                 /\ j >= i /\ work'[r].at = j /\ work'[r].attempt = work[r].attempt
                 /\ \A k \in DOMAIN Lineage[s] : k >= i /\ k < j => mode[Lineage[s][k]] = Unset
                 /\ \/ work'[r].phase = "evaluating" /\ mode[Lineage[s][j]] = "safety"
                    \/ work'[r].phase = "replying" /\ mode[Lineage[s][j]] = "auto"
                    \/ work'[r].phase = "looking" /\ mode[Lineage[s][j]] = Unset
<1> DEFINE s == SessionOf[r]
           j == Stops(s, i)
           found == IF j = 0 THEN "ask" ELSE mode[Lineage[s][j]]
<1>1. s \in Sessions
  BY PermissionBounds
<1>2. 0 \notin DOMAIN Lineage[s]
  BY <1>1, Lineages
<1>3. \/ /\ j = 0
         /\ \A k \in DOMAIN Lineage[s] : k >= i => mode[Lineage[s][k]] = Unset
      \/ /\ j \in DOMAIN Lineage[s] /\ j >= i /\ found = mode[Lineage[s][j]]
         /\ \A k \in DOMAIN Lineage[s] : k >= i /\ k < j => mode[Lineage[s][k]] = Unset
  BY <1>1, <1>2, StopsCases
<1>4. \/ found = "ask" /\ Ends(r) /\ UNCHANGED told
      \/ found = "safety" /\ Continues(r, "evaluating", j)
      \/ found = "auto" /\ Continues(r, "replying", j)
      \/ found = Unset /\ Continues(r, "looking", j)
  BY DEF Walks
<1>5. j = 0 => found = "ask"
  OBVIOUS
<1> HIDE DEF j, found
<1>6. CASE found = "ask" /\ Ends(r) /\ UNCHANGED told
  <2>1. work'[r] = Idle /\ \A q \in Requests \ {r} : work'[q] = work[q]
    BY <1>6 DEF Ends
  <2> QED
    BY <1>3, <1>6, <2>1
<1>7. ASSUME NEW phase \in {"evaluating", "replying", "looking"}, found # "ask",
             Continues(r, phase, j)
      PROVE  /\ UNCHANGED told /\ \A q \in Requests \ {r} : work'[q] = work[q]
             /\ work'[r].phase = phase /\ work'[r].at = j /\ work'[r].attempt = work[r].attempt
             /\ j \in DOMAIN Lineage[s] /\ j >= i /\ found = mode[Lineage[s][j]]
             /\ \A k \in DOMAIN Lineage[s] : k >= i /\ k < j => mode[Lineage[s][k]] = Unset
  <2>1. work'[r] = [phase |-> phase, at |-> j, attempt |-> work[r].attempt]
    BY <1>7 DEF Continues
  <2>2. \A q \in Requests \ {r} : work'[q] = work[q]
    BY <1>7 DEF Continues
  <2>3. j # 0
    BY <1>5, <1>7
  <2> QED
    BY <1>3, <1>7, <2>1, <2>2, <2>3 DEF Continues
<1>8. CASE found = "safety" /\ Continues(r, "evaluating", j)
  BY <1>7, <1>8
<1>9. CASE found = "auto" /\ Continues(r, "replying", j)
  BY <1>7, <1>9
<1>10. CASE found = Unset /\ Continues(r, "looking", j)
  <2>1. found # "ask"
    BY <1>10 DEF Unset
  <2> QED
    BY <1>7, <1>10, <2>1
<1> QED
  BY <1>4, <1>6, <1>8, <1>9, <1>10

-----------------------------------------------------------------------------
(* Nothing is left in an auto session *)

\* Only the first writes of the queue set a default.
NoDefaultBeyond(queue, n) == \A i \in DOMAIN queue : queue[i].isDefault => i <= n

\* A request that is worked on will look at all modes yet, or it has passed
\* none that is auto; one that is not worked on is of no auto session.  Whoever
\* does not look again waits for no default: the other writes have the pending
\* requests looked at.
Seen(w, s, modes, queue) ==
  \/ w.phase \in {"delayed", "evaluating", "replying"}
  \/ w.phase = "resolving" /\ NoDefaultBeyond(queue, w.waits)
  \/ /\ w.phase = "looking" /\ NoDefaultBeyond(queue, 0)
     /\ \A i \in DOMAIN Lineage[s] : i <= w.at => modes[Lineage[s][i]] \in {"ask", Unset}
  \/ w.phase = "none" /\ NoDefaultBeyond(queue, 0) /\ Effective(modes, s) # "auto"

\* Until the pending requests are looked at again, each of them is seen, but
\* for those that were left for the user or missed.
AutoInv ==
  upstream /\ listing = {} =>
    \A r \in Open \ (told \cup missed) : Seen(work[r], SessionOf[r], mode, writes)

\* A walk that has passed no auto mode sees the request.
LEMMA WalkSeen ==
  ASSUME TypeInv, NEW r \in Requests, NEW i \in Nat \ {0}, Walks(r, i),
         NoDefaultBeyond(writes, 0),
         \A k \in DOMAIN Lineage[SessionOf[r]] :
           k < i => mode[Lineage[SessionOf[r]][k]] \in {"ask", Unset}
  PROVE  Seen(work'[r], SessionOf[r], mode, writes)
<1> DEFINE s == SessionOf[r]
<1>1. s \in Sessions
  BY PermissionBounds
<1>2. work \in [Requests -> Work]
  BY DEF TypeInv, TypeOK, Work
<1>3. \/ /\ work'[r] = Idle
         /\ \/ \A k \in DOMAIN Lineage[s] : k >= i => mode[Lineage[s][k]] = Unset
            \/ \E j \in DOMAIN Lineage[s] :
                 /\ j >= i /\ mode[Lineage[s][j]] = "ask"
                 /\ \A k \in DOMAIN Lineage[s] : k >= i /\ k < j => mode[Lineage[s][k]] = Unset
      \/ \E j \in DOMAIN Lineage[s] :
           /\ j >= i /\ work'[r].at = j
           /\ \A k \in DOMAIN Lineage[s] : k >= i /\ k < j => mode[Lineage[s][k]] = Unset
           /\ \/ work'[r].phase = "evaluating"
              \/ work'[r].phase = "replying"
              \/ work'[r].phase = "looking" /\ mode[Lineage[s][j]] = Unset
  BY <1>2, WalkCases
<1>4. CASE /\ work'[r] = Idle
           /\ \/ \A k \in DOMAIN Lineage[s] : k >= i => mode[Lineage[s][k]] = Unset
              \/ \E j \in DOMAIN Lineage[s] :
                   /\ j >= i /\ mode[Lineage[s][j]] = "ask"
                   /\ \A k \in DOMAIN Lineage[s] : k >= i /\ k < j => mode[Lineage[s][k]] = Unset
  <2>1. Effective(mode, s) # "auto"
    <3>1. ASSUME NEW p \in DOMAIN Lineage[s], Nearest(mode, s, p)
          PROVE  mode[Lineage[s][p]] \in {"ask", Unset}
      <4>1. CASE p < i
        BY <4>1
      <4>2. CASE ~(p < i)
        <5>1. p >= i
          BY <1>1, <4>2, Lineages
        <5>2. CASE \A k \in DOMAIN Lineage[s] : k >= i => mode[Lineage[s][k]] = Unset
          BY <5>1, <5>2
        <5>3. ASSUME NEW j \in DOMAIN Lineage[s], j >= i, mode[Lineage[s][j]] = "ask",
                     \A k \in DOMAIN Lineage[s] : k >= i /\ k < j => mode[Lineage[s][k]] = Unset
              PROVE  mode[Lineage[s][p]] \in {"ask", Unset}
          <6>1. mode[Lineage[s][j]] # Unset
            BY <5>3 DEF Unset
          <6>2. p <= j
            BY <3>1, <6>1 DEF Nearest
          <6>3. p < j \/ p = j
            BY <1>1, <6>2, Lineages
          <6> QED
            BY <5>1, <5>3, <6>3
        <5> QED
          BY <1>4, <5>2, <5>3
      <4> QED
        BY <4>1, <4>2
    <3>2. \A p \in DOMAIN Lineage[s] : Nearest(mode, s, p) => mode[Lineage[s][p]] # "auto"
      BY <3>1 DEF Unset
    <3> QED
      BY <1>1, <3>2, EffectiveCases
  <2> QED
    BY <1>4, <2>1 DEF Seen, Idle
<1>5. ASSUME NEW j \in DOMAIN Lineage[s], j >= i, work'[r].at = j,
             \A k \in DOMAIN Lineage[s] : k >= i /\ k < j => mode[Lineage[s][k]] = Unset,
             work'[r].phase = "looking", mode[Lineage[s][j]] = Unset
      PROVE  Seen(work'[r], SessionOf[r], mode, writes)
  <2>1. \A k \in DOMAIN Lineage[s] : k <= j => k < i \/ (k >= i /\ k < j) \/ k = j
    BY <1>1, Lineages
  <2>2. \A k \in DOMAIN Lineage[s] : k <= j => mode[Lineage[s][k]] \in {"ask", Unset}
    BY <1>5, <2>1
  <2> QED
    BY <1>5, <2>2 DEF Seen
<1> QED
  BY <1>3, <1>4, <1>5 DEF Seen

\* A session set to "ask" leaves what is seen seen.
LEMMA AskSeen ==
  ASSUME NEW w, NEW s \in Sessions, NEW modes \in Policies, NEW queue, NEW x \in Sessions,
         Seen(w, s, modes, queue)
  PROVE  Seen(w, s, [modes EXCEPT ![x] = "ask"], queue)
<1> DEFINE after == [modes EXCEPT ![x] = "ask"]
<1>1. \A y \in Sessions : after[y] = modes[y] \/ (y = x /\ after[y] = "ask")
  BY DEF Policies
<1>2. \A i \in DOMAIN Lineage[s] : Lineage[s][i] \in Sessions
  BY Lineages
<1> HIDE DEF after
<1>3. ASSUME Effective(modes, s) # "auto" PROVE Effective(after, s) # "auto"
  <2>1. ASSUME NEW p \in DOMAIN Lineage[s], Nearest(after, s, p) PROVE after[Lineage[s][p]] # "auto"
    <3>1. CASE after[Lineage[s][p]] = "ask"
      BY <3>1
    <3>2. CASE after[Lineage[s][p]] = modes[Lineage[s][p]]
      <4>1. \A i \in DOMAIN Lineage[s] : modes[Lineage[s][i]] # Unset => after[Lineage[s][i]] # Unset
        BY <1>1, <1>2 DEF Unset
      <4>2. Nearest(modes, s, p)
        BY <2>1, <3>2, <4>1 DEF Nearest
      <4> QED
        BY <1>3, <3>2, <4>2, NearestAnswers
    <3> QED
      BY <1>1, <1>2, <3>1, <3>2
  <2> QED
    BY <2>1, EffectiveCases
<1>4. \A i \in DOMAIN Lineage[s] :
        modes[Lineage[s][i]] \in {"ask", Unset} => after[Lineage[s][i]] \in {"ask", Unset}
  BY <1>1, <1>2
<1>5. Seen(w, s, after, queue)
  BY <1>3, <1>4 DEF Seen
<1> QED
  BY <1>5 DEF after

\* A request that is not worked on any further, or is no longer open, aside:
\* whose work, and what it waits for, is as before is seen as before.
LEMMA StillSeen ==
  ASSUME TypeInv, AutoInv, upstream, listing = {}, UNCHANGED <<mode, writes>>,
         NEW r \in Requests, r \in Open \ (told \cup missed), work'[r] = work[r]
  PROVE  Seen(work'[r], SessionOf[r], mode', writes')
BY DEF AutoInv

\* Work that begins waits for all defaults.
LEMMA BegunSeen ==
  ASSUME TypeInv, NEW attempt, NEW s, NEW modes
  PROVE  Seen(Begun(attempt), s, modes, writes)
<1>1. NoDefaultBeyond(writes, Len(writes))
  BY DEF TypeInv, TypeOK, NoDefaultBeyond
<1> QED
  BY <1>1 DEF Seen, Begun

\* One step of what the server does about a request.
LEMMA ProcessingSeen ==
  ASSUME TypeInv, AutoInv, upstream', listing' = {}, NEW q \in Requests,
         Processing(q) \/ AttemptFails(q) \/ ResponseLost(q),
         NEW r \in Open', r \notin told' \cup missed'
  PROVE  Seen(work'[r], SessionOf[r], mode', writes')
<1>1. /\ UNCHANGED <<mode, writes, listing, missed, upstream>> /\ told \subseteq told'
      /\ \A p \in Requests : state'[p] = "open" => state[p] = "open"
      /\ \A p \in Requests \ {q} : work'[p] = work[p]
  BY DEF Processing, Retry, Resolve, LookUp, Accepted, Held, Replied, AttemptFails, ResponseLost, Walks,
         Ends, Continues, LeftForUser, GivesUp, Answer, GoesWrong, TypeInv, TypeOK, openCode, policy, pending
<1>2. r \in Requests /\ r \in Open \ (told \cup missed)
  BY <1>1 DEF Open
<1>3. Seen(work[r], SessionOf[r], mode, writes)
  BY <1>1, <1>2 DEF AutoInv
<1>4. work[r] \in Work
  BY <1>2 DEF TypeInv, TypeOK, Work
<1>5. CASE r # q
  BY <1>1, <1>2, <1>5, StillSeen
<1>6. CASE r = q
  <2>1. CASE Retry(q)
    <3>1. work'[q] = Begun(work[q].attempt)
      BY <1>2, <1>6, <2>1 DEF Retry, TypeInv, TypeOK
    <3> QED
      BY <1>1, <1>6, <3>1, BegunSeen
  <2>2. CASE Resolve(q)
    <3>1. NoDefaultBeyond(writes, 0)
      BY <1>3, <1>6, <2>2 DEF Resolve, Seen, NoDefaultBeyond, TypeInv, TypeOK
    <3>2. Walks(q, 1)
      BY <2>2 DEF Resolve
    <3>3. \A k \in DOMAIN Lineage[SessionOf[q]] : ~ (k < 1)
      BY PermissionBounds, Lineages
    <3> QED
      BY <1>1, <1>6, <3>1, <3>2, <3>3, WalkSeen
  <2>3. CASE LookUp(q)
    <3>1. work[q].phase = "looking" /\ work[q] \in Acting /\ Walks(q, work[q].at + 1)
      BY <1>4, <1>6, <2>3, WorkPhases DEF LookUp
    <3>2. NoDefaultBeyond(writes, 0)
      BY <1>3, <1>6, <3>1 DEF Seen
    <3>3. work[q].at \in Nat
      BY <3>1 DEF Acting
    <3>4. \A k \in DOMAIN Lineage[SessionOf[q]] :
            k < work[q].at + 1 => mode[Lineage[SessionOf[q]][k]] \in {"ask", Unset}
      <4>1. \A k \in DOMAIN Lineage[SessionOf[q]] : k < work[q].at + 1 => k <= work[q].at
        <5>1. SessionOf[q] \in Sessions
          BY PermissionBounds
        <5>2. \A k \in DOMAIN Lineage[SessionOf[q]] : k \in Nat
          BY <5>1, Lineages
        <5> QED
          BY <3>3, <5>2
      <4> QED
        BY <1>3, <1>6, <3>1, <4>1 DEF Seen
    <3> QED
      BY <1>1, <1>6, <3>1, <3>2, <3>3, <3>4, WalkSeen
  <2>4. CASE Accepted(q)
    <3>1. work'[q].phase = "replying"
      BY <2>4 DEF Accepted, Continues, TypeInv, TypeOK
    <3> QED
      BY <1>6, <3>1 DEF Seen
  <2>5. CASE Held(q)
    BY <1>6, <2>5 DEF Held, LeftForUser
  <2>6. CASE Replied(q) \/ ResponseLost(q)
    <3>1. state'[q] # "open"
      BY <2>6 DEF Replied, ResponseLost, Answer, TypeInv, TypeOK
    <3> QED
      BY <1>6, <3>1 DEF Open
  <2>7. CASE AttemptFails(q)
    <3>1. work'[q].phase = "delayed" \/ q \in told'
      BY <2>7 DEF AttemptFails, GivesUp, LeftForUser, TypeInv, TypeOK
    <3> QED
      BY <1>6, <3>1 DEF Seen
  <2> QED
    BY <2>1, <2>2, <2>3, <2>4, <2>5, <2>6, <2>7 DEF Processing
<1> QED
  BY <1>5, <1>6

\* A write that ends, well or badly.
LEMMA WriteSeen ==
  ASSUME TypeInv, AutoInv, upstream', listing' = {}, WriteEnds \/ WriteFails,
         NEW r \in Open', r \notin told' \cup missed'
  PROVE  Seen(work'[r], SessionOf[r], mode', writes')
<1>1. UNCHANGED <<upstream, state, told>> /\ r \in Requests /\ r \in Open
  BY DEF WriteEnds, WriteFails, openCode, pending, Open
<1>2. SessionOf[r] \in Sessions /\ work[r] \in Work /\ writes \in Seq(Update) /\ writes # <<>>
  BY <1>1, PermissionBounds DEF WriteEnds, WriteFails, TypeInv, TypeOK, Work
<1>3. CASE WriteFails
  <2>1. UNCHANGED <<mode, listing, missed, work>> /\ writes' = <<>>
    BY <1>3 DEF WriteFails, pending
  <2>2. Seen(work[r], SessionOf[r], mode, writes)
    BY <1>1, <2>1 DEF AutoInv
  <2>3. \A n : NoDefaultBeyond(writes', n)
    BY <2>1 DEF NoDefaultBeyond
  <2> QED
    BY <2>1, <2>2, <2>3 DEF Seen
<1>4. CASE WriteEnds
  <2> DEFINE update == Head(writes)
  <2>1. update \in Update /\ update = writes[1] /\ 1 \in DOMAIN writes
    BY <1>2
  <2>2. /\ mode' = Updated(mode, update) /\ writes' = Tail(writes)
        /\ IF update.isDefault \/ update.mode = "ask" THEN UNCHANGED <<listing, missed>>
           ELSE Reconcile("directory")
        /\ work'[r] = WaitsLess(work[r])
        /\ work[r].phase = "resolving" => Waits(work[r])
    BY <1>1, <1>4 DEF WriteEnds
  <2> HIDE DEF update
  <2>3. (update.isDefault \/ update.mode = "ask") /\ UNCHANGED <<listing, missed>>
    <3>1. ASSUME Reconcile("directory") PROVE FALSE
      BY <1>1, <3>1 DEF Reconcile
    <3> QED
      BY <2>2, <3>1
  <2>4. Seen(work[r], SessionOf[r], mode, writes)
    BY <1>1, <2>3 DEF AutoInv
  <2>5. /\ Len(writes) \in Nat \ {0} /\ DOMAIN writes = 1 .. Len(writes)
        /\ DOMAIN writes' = 1 .. Len(writes) - 1
        /\ \A i \in DOMAIN writes' : writes'[i] = writes[i + 1] /\ i + 1 \in DOMAIN writes
    BY <1>2, <2>2
  <2>6. NoDefaultBeyond(writes, 0) => NoDefaultBeyond(writes', 0) /\ ~update.isDefault
    BY <2>1, <2>5 DEF NoDefaultBeyond
  <2>7. CASE work[r].phase = "resolving"
    <3>1. work[r] \in Resolving /\ work[r].waits \in Nat \ {0}
      BY <1>2, <2>2, <2>7, WorkPhases DEF Waits, Resolving
    <3>2. work'[r] = [work[r] EXCEPT !.waits = @ - 1]
      BY <2>2, <2>7 DEF WaitsLess
    <3>3. work'[r].phase = "resolving" /\ work'[r].waits = work[r].waits - 1
      BY <2>7, <3>1, <3>2 DEF Resolving
    <3>4. NoDefaultBeyond(writes, work[r].waits)
      BY <2>4, <2>7 DEF Seen
    <3>5. NoDefaultBeyond(writes', work[r].waits - 1)
      BY <2>5, <3>1, <3>4 DEF NoDefaultBeyond
    <3> QED
      BY <3>3, <3>5 DEF Seen
  <2>8. CASE work[r].phase # "resolving"
    <3>1. work'[r] = work[r]
      BY <2>2, <2>8 DEF WaitsLess, Waits
    <3>2. CASE work[r].phase \in {"delayed", "evaluating", "replying"}
      BY <3>1, <3>2 DEF Seen
    <3>3. CASE work[r].phase \notin {"delayed", "evaluating", "replying"}
      <4>1. NoDefaultBeyond(writes, 0)
        BY <2>4, <2>8, <3>3 DEF Seen
      <4>2. update.mode = "ask" /\ ~update.isDefault
        BY <2>3, <2>6, <4>1
      <4>3. mode' = [mode EXCEPT ![update.session] = "ask"]
        BY <2>2, <4>2 DEF Updated
      <4>4. Seen(work[r], SessionOf[r], mode', writes)
        BY <1>2, <2>1, <2>4, <4>3, AskSeen DEF Update, TypeInv, TypeOK
      <4> QED
        BY <2>6, <2>8, <3>1, <3>3, <4>1, <4>4 DEF Seen
    <3> QED
      BY <3>2, <3>3
  <2> QED
    BY <2>7, <2>8
<1> QED
  BY <1>3, <1>4

LEMMA AutoInvStep ==
  ASSUME TypeInv, AutoInv, Next
  PROVE  AutoInv'
<1> SUFFICES ASSUME upstream', listing' = {}, NEW r \in Open', r \notin told' \cup missed'
             PROVE  Seen(work'[r], SessionOf[r], mode', writes')
  BY DEF AutoInv
<1>1. r \in Requests /\ work \in [Requests -> Work]
  BY DEF Open, TypeInv, TypeOK, Work
<1>2. ASSUME Reconcile("directory") \/ Reconcile("all"), UNCHANGED state PROVE FALSE
  BY <1>2 DEF Reconcile, Open
<1>3. ASSUME NEW q \in Requests, Processing(q) \/ AttemptFails(q) \/ ResponseLost(q)
      PROVE  Seen(work'[r], SessionOf[r], mode', writes')
  BY <1>3, ProcessingSeen
<1>4. CASE WriteEnds \/ WriteFails
  BY <1>4, WriteSeen
\* Nothing changes for the request.
<1>5. ASSUME UNCHANGED <<mode, writes, told, missed>>, listing = {}, upstream, state[r] = "open", work'[r] = work[r]
      PROVE  Seen(work'[r], SessionOf[r], mode', writes')
  BY <1>1, <1>5, StillSeen DEF Open
<1>6. ASSUME NEW q \in Requests, Ask(q) PROVE Seen(work'[r], SessionOf[r], mode', writes')
  <2>1. /\ UNCHANGED <<mode, writes, told, missed, listing, upstream>> /\ work' = Working({q})
        /\ state' = [state EXCEPT ![q] = "open"] /\ state[q] = "no"
    BY <1>6 DEF Ask, policy
  <2>2. CASE r = q
    <3>1. work[q] = Idle
      BY <2>1 DEF TypeInv, Asked
    <3>2. work'[r] = Begun(1)
      BY <1>1, <2>1, <2>2, <3>1 DEF Working
    <3> QED
      BY <2>1, <3>2, BegunSeen
  <2>3. CASE r # q
    <3>1. state[r] = "open"
      BY <2>1, <2>3 DEF Open, TypeInv, TypeOK
    <3>2. work'[r] = work[r]
      BY <1>1, <2>1, <2>3 DEF Working
    <3> QED
      BY <1>5, <2>1, <3>1, <3>2
  <2> QED
    BY <2>2, <2>3
<1>7. ASSUME NEW q \in Requests, UserReplies(q) PROVE Seen(work'[r], SessionOf[r], mode', writes')
  <2>1. state[r] = "open"
    BY <1>7 DEF UserReplies, Answer, Open, TypeInv, TypeOK
  <2> QED
    BY <1>5, <1>7, <2>1 DEF UserReplies, policy, pending
<1>8. ASSUME NEW s \in Sessions, Create(s) PROVE Seen(work'[r], SessionOf[r], mode', writes')
  BY <1>5, <1>8 DEF Create, pending, Open
<1>9. ASSUME NEW s \in Sessions, DefaultRead(s) PROVE Seen(work'[r], SessionOf[r], mode', writes')
  <2>1. UNCHANGED <<mode, told, listing, upstream, work, state>>
    BY <1>9 DEF DefaultRead, openCode
  <2>2. UNCHANGED <<writes, missed>>
    BY <1>9, <2>1 DEF DefaultRead, Open
  <2> QED
    BY <1>5, <2>1, <2>2 DEF Open
<1>10. ASSUME NEW s \in Sessions, NEW m \in Modes, UserSets(s, m)
       PROVE  Seen(work'[r], SessionOf[r], mode', writes')
  <2> DEFINE update == [session |-> s, mode |-> m, isDefault |-> FALSE]
  <2>1. /\ UNCHANGED <<mode, told, missed, listing, upstream, work, state>>
        /\ writes' = Append(writes, update)
    BY <1>10 DEF UserSets, Queue, openCode, pending
  <2>2. writes \in Seq(Update) /\ update \in Update /\ ~update.isDefault
    BY DEF TypeInv, TypeOK, Update
  <2> HIDE DEF update
  <2>3. /\ DOMAIN writes' = 1 .. Len(writes) + 1 /\ Len(writes) \in Nat
        /\ \A i \in DOMAIN writes : writes'[i] = writes[i]
        /\ writes'[Len(writes) + 1] = update
    BY <2>1, <2>2
  <2>4. \A n : NoDefaultBeyond(writes, n) => NoDefaultBeyond(writes', n)
    BY <2>2, <2>3 DEF NoDefaultBeyond
  <2>5. Seen(work[r], SessionOf[r], mode, writes)
    BY <2>1 DEF AutoInv, Open
  <2> QED
    BY <2>1, <2>4, <2>5 DEF Seen
<1>11. ASSUME NEW k \in Keys, Listed(k) PROVE Seen(work'[r], SessionOf[r], mode', writes')
  <2>1. /\ UNCHANGED <<mode, writes, state>> /\ work' = Working(Open)
        /\ missed' = {q \in Open : MayMissWrites(q)} /\ r \in Open
    BY <1>11 DEF Listed, policy, openCode, Open
  <2>2. CASE work[r] = Idle
    <3>1. work'[r] = Begun(1)
      BY <1>1, <2>1, <2>2 DEF Working
    <3> QED
      BY <2>1, <3>1, BegunSeen
  <2>3. CASE work[r] # Idle
    <3>1. work'[r] = work[r]
      BY <1>1, <2>1, <2>3 DEF Working
    <3>2. ~MayMissWrites(r)
      BY <2>1
    <3>3. \/ work[r].phase = "delayed"
          \/ work[r].phase = "resolving" /\ ~(work[r].waits < Len(writes)) /\ work[r].waits \in Nat
      BY <1>1, <2>3, <3>2 DEF MayMissWrites, Work, Idle, Delayed, Resolving, Acting
    <3>4. CASE work[r].phase = "resolving" /\ ~(work[r].waits < Len(writes)) /\ work[r].waits \in Nat
      <4>1. NoDefaultBeyond(writes, work[r].waits)
        BY <3>4 DEF NoDefaultBeyond, TypeInv, TypeOK
      <4> QED
        BY <2>1, <3>1, <3>4, <4>1 DEF Seen
    <3> QED
      BY <3>1, <3>3, <3>4 DEF Seen
  <2> QED
    BY <2>2, <2>3
<1>12. ASSUME NEW k \in Keys, ListFails(k) PROVE FALSE
  BY <1>12 DEF ListFails, Open, openCode
<1>13. CASE UpstreamBreaks \/ Restart
  BY <1>13 DEF UpstreamBreaks, Restart
<1>14. CASE UpstreamConnects
  BY <1>2, <1>14 DEF UpstreamConnects, openCode
<1>15. CASE \/ Receive \/ Disconnect \/ ClientConnects
            \/ StaleStatus \/ ReadAnswered \/ ReadFails \/ ReadApplied
  BY <1>5, <1>15 DEF Receive, Disconnect, ClientConnects, StaleStatus, ReadAnswered, ReadFails,
     Answered, ReadApplied, openCode, policy, pending, Open
<1> QED
  BY <1>3, <1>4, <1>6, <1>7, <1>8, <1>9, <1>10, <1>11, <1>12, <1>13, <1>14, <1>15 DEF Next

\* In an auto session nothing stays open but what was left for the user or is
\* excused, however modes, defaults, retries, lists and restarts interleave.
THEOREM AutoLeavesNothingCorrect == Spec => []AutoLeavesNothing
<1>1. Init => AutoInv
  BY DEF Init, AutoInv, Open
<1>2. TypeInv /\ AutoInv /\ [Next]_vars => AutoInv'
  <2>1. ASSUME AutoInv, UNCHANGED vars PROVE AutoInv'
    BY <2>1 DEF vars, openCode, policy, pending, AutoInv, Open
  <2> QED
    BY <2>1, AutoInvStep
<1>3. AutoInv => AutoLeavesNothing
  BY DEF AutoInv, AutoLeavesNothing, Settled, Seen, Idle, Open
<1> QED
  BY <1>1, <1>2, <1>3, TypeInvCorrect, PTL DEF Spec

-----------------------------------------------------------------------------
(* What is answered was allowed *)

\* A walk looks for further modes from the place where it is.
Passing(r) == work[r].phase = "looking" /\ work[r].at < Len(Lineage[SessionOf[r]])

\* The circumstance in which the code is known to piece a mode together: a
\* session that a walk has passed, since nobody had set a mode for it, is set to
\* "ask" before the walk goes on to its parent.  In the others it does not.
PassedNotSetToAsk ==
  \A r \in Requests : Passing(r) =>
    \A i \in DOMAIN Lineage[SessionOf[r]] :
      i <= work[r].at /\ mode[Lineage[SessionOf[r]][i]] = Unset
        => mode'[Lineage[SessionOf[r]][i]] # "ask"

\* What is about to be answered is allowed, and a walk of what is not allowed
\* has passed nobody who has a mode by now.
AuthorisedInv ==
  /\ \A r \in Open : AutoAnswering(mode, r) => r \in authorised
  /\ \A r \in Open : work[r].phase \in {"evaluating", "replying"} => r \in authorised
  /\ \A r \in Open \ authorised :
       Passing(r) => UnsetUpTo(mode, SessionOf[r], work[r].at)
  /\ RepliesAuthorised

\* A walk that has passed nobody with a mode finds the one that answers.
LEMMA WalkAuthorised ==
  ASSUME TypeInv, NEW r \in Requests, NEW i \in Nat \ {0}, Walks(r, i),
         i \in DOMAIN Lineage[SessionOf[r]] => UnsetUpTo(mode, SessionOf[r], i - 1)
  PROVE  /\ work'[r].phase \in {"evaluating", "replying"} => AutoAnswering(mode, r)
         /\ work'[r].phase = "looking" => UnsetUpTo(mode, SessionOf[r], work'[r].at)
<1> DEFINE s == SessionOf[r]
<1>1. s \in Sessions
  BY PermissionBounds
<1>2. work \in [Requests -> Work]
  BY DEF TypeInv, TypeOK, Work
<1>3. \/ work'[r] = Idle
      \/ \E j \in DOMAIN Lineage[s] :
           /\ j >= i /\ work'[r].at = j
           /\ \A k \in DOMAIN Lineage[s] : k >= i /\ k < j => mode[Lineage[s][k]] = Unset
           /\ \/ work'[r].phase = "evaluating" /\ mode[Lineage[s][j]] = "safety"
              \/ work'[r].phase = "replying" /\ mode[Lineage[s][j]] = "auto"
              \/ work'[r].phase = "looking" /\ mode[Lineage[s][j]] = Unset
  BY <1>2, WalkCases
<1>4. ASSUME NEW j \in DOMAIN Lineage[s], j >= i, work'[r].at = j,
             \A k \in DOMAIN Lineage[s] : k >= i /\ k < j => mode[Lineage[s][k]] = Unset,
             \/ work'[r].phase = "evaluating" /\ mode[Lineage[s][j]] = "safety"
             \/ work'[r].phase = "replying" /\ mode[Lineage[s][j]] = "auto"
             \/ work'[r].phase = "looking" /\ mode[Lineage[s][j]] = Unset
      PROVE  /\ work'[r].phase \in {"evaluating", "replying"} => AutoAnswering(mode, r)
             /\ work'[r].phase = "looking" => UnsetUpTo(mode, SessionOf[r], work'[r].at)
  <2>1. i \in DOMAIN Lineage[s]
    BY <1>1, <1>4, Lineages
  <2>2. \A k \in DOMAIN Lineage[s] : k < j => k <= i - 1 \/ (k >= i /\ k < j)
    BY <1>1, Lineages
  <2>3. \A k \in DOMAIN Lineage[s] : k < j => mode[Lineage[s][k]] = Unset
    BY <1>4, <2>1, <2>2 DEF UnsetUpTo
  <2>4. ASSUME mode[Lineage[s][j]] \in {"safety", "auto"} PROVE AutoAnswering(mode, r)
    <3>1. \A k \in DOMAIN Lineage[s] : mode[Lineage[s][k]] # Unset => j <= k
      BY <1>1, <2>3, Lineages
    <3>2. Nearest(mode, s, j)
      BY <2>4, <3>1 DEF Nearest, Unset
    <3> QED
      BY <1>1, <2>4, <3>2, NearestAnswers DEF AutoAnswering
  <2>5. ASSUME mode[Lineage[s][j]] = Unset PROVE UnsetUpTo(mode, s, j)
    <3>1. \A k \in DOMAIN Lineage[s] : k <= j => k < j \/ k = j
      BY <1>1, Lineages
    <3> QED
      BY <2>3, <2>5, <3>1 DEF UnsetUpTo
  <2> QED
    BY <1>4, <2>4, <2>5
<1> QED
  BY <1>3, <1>4 DEF Idle

\* One step of what the server does about a request.
LEMMA ProcessingAuthorised ==
  ASSUME TypeInv, AuthorisedInv, NEW q \in Requests,
         Processing(q) \/ AttemptFails(q) \/ ResponseLost(q)
  PROVE  AuthorisedInv'
<1>1. /\ UNCHANGED <<mode, authorised>>
      /\ \A p \in Requests : state'[p] = "open" => state[p] = "open"
      /\ \A p \in Requests \ {q} : work'[p] = work[p]
      /\ \A p \in Requests \ {q} : state'[p] = state[p]
  BY DEF Processing, Retry, Resolve, LookUp, Accepted, Held, Replied, AttemptFails, ResponseLost, Walks,
         Ends, Continues, LeftForUser, GivesUp, Answer, GoesWrong, TypeInv, TypeOK, openCode, policy, pending
<1>2. work[q] \in Work /\ SessionOf[q] \in Sessions
  BY PermissionBounds DEF TypeInv, TypeOK, Work
<1>3. \A r \in Open' : r \in Open
  BY <1>1 DEF Open
<1>4. /\ q \in Open' /\ work'[q].phase \in {"evaluating", "replying"} => q \in authorised
      /\ q \in Open' \ authorised /\ Passing(q)' => UnsetUpTo(mode, SessionOf[q], work'[q].at)
      /\ state'[q] = "server" => q \in authorised
  <2>1. CASE Resolve(q)
    <3>1. UNCHANGED state /\ Walks(q, 1)
      BY <2>1 DEF Resolve, openCode
    <3>2. UnsetUpTo(mode, SessionOf[q], 1 - 1)
      BY <1>2, Lineages DEF UnsetUpTo
    <3>3. /\ work'[q].phase \in {"evaluating", "replying"} => AutoAnswering(mode, q)
          /\ work'[q].phase = "looking" => UnsetUpTo(mode, SessionOf[q], work'[q].at)
      BY <3>1, <3>2, WalkAuthorised
    <3> QED
      BY <1>3, <3>1, <3>3 DEF AuthorisedInv, RepliesAuthorised, Passing
  <2>2. CASE LookUp(q)
    <3>1. UNCHANGED state /\ Walks(q, work[q].at + 1) /\ work[q].phase = "looking"
      BY <2>2 DEF LookUp, openCode
    <3>2. work[q].at \in Nat
      BY <1>2, <3>1, WorkPhases DEF Acting
    <3>3. CASE q \in Open \ authorised
      <4>1. work[q].at + 1 \in DOMAIN Lineage[SessionOf[q]] => Passing(q)
        BY <1>2, <3>1, <3>2, Lineages DEF Passing
      <4>2. work[q].at + 1 \in DOMAIN Lineage[SessionOf[q]]
              => UnsetUpTo(mode, SessionOf[q], work[q].at + 1 - 1)
        BY <3>2, <3>3, <4>1 DEF AuthorisedInv
      <4>3. /\ work'[q].phase \in {"evaluating", "replying"} => AutoAnswering(mode, q)
            /\ work'[q].phase = "looking" => UnsetUpTo(mode, SessionOf[q], work'[q].at)
        BY <3>1, <3>2, <4>2, WalkAuthorised
      <4> QED
        BY <1>3, <3>1, <4>3 DEF AuthorisedInv, RepliesAuthorised, Passing
    <3>4. CASE q \notin Open \ authorised
      BY <1>1, <1>3, <3>1, <3>4 DEF AuthorisedInv, RepliesAuthorised
    <3> QED
      BY <3>3, <3>4
  <2>3. CASE Retry(q)
    <3>1. work'[q].phase = "resolving" /\ UNCHANGED state
      BY <2>3 DEF Retry, Begun, TypeInv, TypeOK, openCode
    <3> QED
      BY <3>1 DEF Passing, AuthorisedInv, RepliesAuthorised
  <2>4. CASE Accepted(q)
    <3>1. work[q].phase = "evaluating" /\ work'[q].phase = "replying" /\ UNCHANGED state
      BY <2>4 DEF Accepted, Continues, TypeInv, TypeOK, openCode
    <3> QED
      BY <1>3, <3>1 DEF Passing, AuthorisedInv, RepliesAuthorised
  <2>5. CASE Held(q)
    <3>1. work'[q].phase = "none" /\ UNCHANGED state
      BY <2>5 DEF Held, LeftForUser, Ends, Idle, TypeInv, TypeOK, openCode
    <3> QED
      BY <3>1 DEF Passing, AuthorisedInv, RepliesAuthorised
  <2>6. CASE Replied(q) \/ ResponseLost(q)
    <3>1. work'[q].phase \in {"none", "delayed"}
      BY <2>6 DEF Replied, ResponseLost, Ends, Idle, TypeInv, TypeOK
    <3>2. work[q].phase = "replying" /\ (state[q] = "open" \/ state'[q] = state[q])
      BY <2>6 DEF Replied, ResponseLost, Answer
    <3> QED
      BY <3>1, <3>2 DEF Passing, AuthorisedInv, RepliesAuthorised, Open
  <2>7. CASE AttemptFails(q)
    <3>1. work'[q].phase \in {"none", "delayed"} /\ UNCHANGED state
      BY <2>7 DEF AttemptFails, GivesUp, LeftForUser, Ends, Idle, TypeInv, TypeOK, openCode
    <3> QED
      BY <3>1 DEF Passing, AuthorisedInv, RepliesAuthorised
  <2> QED
    BY <2>1, <2>2, <2>3, <2>4, <2>5, <2>6, <2>7 DEF Processing
<1>5. \A r \in Requests \ {q} : Passing(r)' <=> Passing(r)
  BY <1>1 DEF Passing
<1>6. \A r \in Open' : AutoAnswering(mode', r) => r \in authorised'
  BY <1>1, <1>3 DEF AuthorisedInv
<1>7. \A r \in Open' : work'[r].phase \in {"evaluating", "replying"} => r \in authorised'
  BY <1>1, <1>3, <1>4 DEF AuthorisedInv, Open
<1>8. \A r \in Open' \ authorised' : Passing(r)' => UnsetUpTo(mode', SessionOf[r], work'[r].at)
  <2> SUFFICES ASSUME NEW r \in Open', r \notin authorised', Passing(r)'
               PROVE  UnsetUpTo(mode', SessionOf[r], work'[r].at)
    OBVIOUS
  <2>1. r \in Requests /\ r \in Open \ authorised
    BY <1>1, <1>3 DEF Open
  <2>2. CASE r = q
    BY <1>1, <1>4, <2>1, <2>2
  <2>3. CASE r # q
    BY <1>1, <1>5, <2>1, <2>3 DEF AuthorisedInv
  <2> QED
    BY <2>2, <2>3
<1>9. RepliesAuthorised'
  BY <1>1, <1>4 DEF AuthorisedInv, RepliesAuthorised
<1> QED
  BY <1>6, <1>7, <1>8, <1>9 DEF AuthorisedInv

\* Nothing is done about the requests but that work on some begins or is
\* forgotten, and what the policy allows is recorded.
LEMMA OthersAuthorised ==
  ASSUME TypeInv, AuthorisedInv, PassedNotSetToAsk \/ UNCHANGED mode,
         authorised \subseteq authorised',
         \A r \in Open' : AutoAnswering(mode', r) => r \in authorised',
         \A r \in Requests : work'[r] = work[r] \/ work'[r].phase \in {"none", "resolving"},
         \A r \in Requests : state'[r] = "open" => state[r] = "open" \/ work'[r].phase \in {"none", "resolving"},
         \A r \in Requests : state'[r] = "server" => state[r] = "server"
  PROVE  AuthorisedInv'
<1>1. \A r \in Open' : work'[r].phase \in {"evaluating", "replying"} => r \in authorised'
  BY DEF AuthorisedInv, Open
<1>2. \A r \in Open' \ authorised' : Passing(r)' => UnsetUpTo(mode', SessionOf[r], work'[r].at)
  <2> SUFFICES ASSUME NEW r \in Open', r \notin authorised', Passing(r)',
                      NEW i \in DOMAIN Lineage[SessionOf[r]], i <= work'[r].at,
                      mode'[Lineage[SessionOf[r]][i]] # Unset
               PROVE  FALSE
    BY DEF UnsetUpTo
  <2> DEFINE s == SessionOf[r]
  <2>1. /\ r \in Requests /\ work'[r] = work[r] /\ Passing(r) /\ r \in Open \ authorised
        /\ s \in Sessions /\ work[r] \in Work
    BY PermissionBounds DEF Passing, Open, TypeInv, TypeOK, Work
  <2>2. UnsetUpTo(mode, s, work[r].at)
    BY <2>1 DEF AuthorisedInv
  <2>3. \A k \in DOMAIN Lineage[s] : k <= work[r].at => mode'[Lineage[s][k]] # "ask"
    <3>1. \A k \in DOMAIN Lineage[s] : k <= work[r].at => mode[Lineage[s][k]] = Unset
      BY <2>2 DEF UnsetUpTo
    <3>2. CASE PassedNotSetToAsk
      BY <2>1, <3>1, <3>2 DEF PassedNotSetToAsk
    <3>3. CASE UNCHANGED mode
      BY <3>1, <3>3 DEF Unset
    <3> QED
      BY <3>2, <3>3
  <2>4. work[r].at \in Nat
    BY <2>1, WorkPhases DEF Passing, Acting
  <2>5. \A k \in DOMAIN Lineage[s] : k <= i => k <= work[r].at
    BY <2>1, <2>4, Lineages
  <2>6. Answers(mode', s)
    BY <2>1, <2>3, <2>5, AnswersByNearest
  <2> QED
    BY <2>6 DEF Answers, AutoAnswering
<1>3. RepliesAuthorised'
  BY DEF AuthorisedInv, RepliesAuthorised
<1> QED
  BY <1>1, <1>2, <1>3 DEF AuthorisedInv

LEMMA AuthorisedInvStep ==
  ASSUME TypeInv, AuthorisedInv, Next, PassedNotSetToAsk \/ UNCHANGED mode
  PROVE  AuthorisedInv'
<1>1. ASSUME Authorises
      PROVE  /\ authorised \subseteq authorised'
             /\ \A r \in Open' : AutoAnswering(mode', r) => r \in authorised'
  BY <1>1 DEF Authorises, Open
<1>2. ASSUME UNCHANGED <<mode, authorised>>, \A r \in Requests : state'[r] = "open" => state[r] = "open"
      PROVE  /\ authorised \subseteq authorised'
             /\ \A r \in Open' : AutoAnswering(mode', r) => r \in authorised'
  BY <1>2 DEF Open, AuthorisedInv
<1>3. ASSUME NEW requests, work' = Working(requests)
      PROVE  \A r \in Requests : work'[r] = work[r] \/ work'[r].phase \in {"none", "resolving"}
  BY <1>3 DEF Working, Begun
<1>4. ASSUME NEW q \in Requests, Processing(q) \/ AttemptFails(q) \/ ResponseLost(q)
      PROVE  AuthorisedInv'
  BY <1>4, ProcessingAuthorised
<1>5. ASSUME NEW q \in Requests, Ask(q) PROVE AuthorisedInv'
  <2>1. /\ UNCHANGED mode /\ Authorises /\ state' = [state EXCEPT ![q] = "open"]
        /\ work' = Working({q}) \/ UNCHANGED work
    BY <1>5 DEF Ask, policy
  <2>2. work[q] = Idle
    BY <1>5 DEF Ask, TypeInv, Asked
  <2>3. work'[q].phase \in {"none", "resolving"}
    BY <2>1, <2>2 DEF Working, Begun, Idle
  <2>4. \A r \in Requests : r # q => state'[r] = state[r]
    BY <2>1 DEF TypeInv, TypeOK
  <2>5. state'[q] = "open"
    BY <2>1 DEF TypeInv, TypeOK
  <2>6. /\ authorised \subseteq authorised'
        /\ \A r \in Open' : AutoAnswering(mode', r) => r \in authorised'
    BY <1>1, <2>1
  <2>7. \A r \in Requests : work'[r] = work[r] \/ work'[r].phase \in {"none", "resolving"}
    BY <1>3, <2>1
  <2> QED
    BY <2>1, <2>3, <2>4, <2>5, <2>6, <2>7, OthersAuthorised
<1>6. ASSUME NEW q \in Requests, UserReplies(q) PROVE AuthorisedInv'
  <2>1. UNCHANGED <<mode, authorised, work>>
    BY <1>6 DEF UserReplies, policy, pending
  <2>2. \A r \in Requests : state'[r] = state[r] \/ state'[r] = "user"
    BY <1>6 DEF UserReplies, Answer, TypeInv, TypeOK
  <2> QED
    BY <1>2, <2>1, <2>2, OthersAuthorised
<1>7. ASSUME NEW k \in Keys, Listed(k) PROVE AuthorisedInv'
  <2>1. UNCHANGED <<mode, authorised, state>> /\ work' = Working(Open)
    BY <1>7 DEF Listed, policy, openCode
  <2> QED
    BY <1>2, <1>3, <2>1, OthersAuthorised
<1>8. CASE WriteEnds
  <2>1. Authorises /\ UNCHANGED state /\ work' = [r \in Requests |-> WaitsLess(work[r])]
    BY <1>8 DEF WriteEnds, openCode
  <2>2. \A r \in Requests : work'[r] = work[r] \/ work'[r].phase = "resolving"
    <3> SUFFICES ASSUME NEW r \in Requests, Waits(work[r]) PROVE work'[r].phase = "resolving"
      BY <2>1 DEF WaitsLess
    <3>1. work[r] \in Resolving /\ work'[r] = [work[r] EXCEPT !.waits = @ - 1]
      BY <2>1, WorkPhases DEF Waits, WaitsLess, TypeInv, TypeOK, Work
    <3> QED
      BY <3>1 DEF Resolving
  <2> QED
    BY <1>1, <2>1, <2>2, OthersAuthorised
<1>9. CASE Restart
  <2>1. Authorises /\ UNCHANGED state /\ \A r \in Requests : work'[r].phase = "none"
    BY <1>9 DEF Restart, openCode, Idle
  <2> QED
    BY <1>1, <2>1, OthersAuthorised
\* The others do nothing about requests.
<1>10. ASSUME UNCHANGED <<mode, authorised, state, work>> PROVE AuthorisedInv'
  BY <1>2, <1>10, OthersAuthorised
<1>11. ASSUME NEW s \in Sessions, Create(s) \/ DefaultRead(s) \/ \E m \in Modes : UserSets(s, m)
       PROVE  AuthorisedInv'
  BY <1>10, <1>11 DEF Create, DefaultRead, UserSets, openCode, pending
<1>12. CASE WriteFails \/ UpstreamBreaks \/ UpstreamConnects \/ Receive \/ Disconnect \/ ClientConnects
            \/ StaleStatus \/ ReadAnswered \/ ReadFails \/ ReadApplied
            \/ \E k \in Keys : ListFails(k)
  BY <1>10, <1>12 DEF WriteFails, UpstreamBreaks, UpstreamConnects, Receive, Disconnect, ClientConnects,
     StaleStatus, ReadAnswered, ReadFails, Answered, ReadApplied, ListFails, openCode, policy, pending
<1> QED
  BY <1>4, <1>5, <1>6, <1>7, <1>8, <1>9, <1>11, <1>12 DEF Next

\* The server answers only what the policy let it answer at some time since it
\* was asked, however lookups, retries and restarts fall between its changes:
\* as long as nobody that a walk has passed is set to "ask" before it goes on.
THEOREM RepliesAuthorisedCorrect == Spec /\ [][PassedNotSetToAsk]_vars => []RepliesAuthorised
<1>1. Init => AuthorisedInv
  BY DEF Init, AuthorisedInv, Open, RepliesAuthorised
<1>2. TypeInv /\ AuthorisedInv /\ [Next]_vars /\ [PassedNotSetToAsk]_vars => AuthorisedInv'
  <2>1. ASSUME AuthorisedInv, UNCHANGED vars PROVE AuthorisedInv'
    BY <2>1 DEF vars, openCode, policy, pending, AuthorisedInv, Open, RepliesAuthorised, Passing,
       UnsetUpTo, AutoAnswering
  <2>2. ASSUME TypeInv, AuthorisedInv, Next, PassedNotSetToAsk PROVE AuthorisedInv'
    BY <2>2, AuthorisedInvStep
  <2> QED
    BY <2>1, <2>2
<1>3. AuthorisedInv => RepliesAuthorised
  BY DEF AuthorisedInv
<1> QED
  BY <1>1, <1>2, <1>3, TypeInvCorrect, PTL DEF Spec

\* A session without a parent is never answered for but as it was allowed, for
\* there nothing is pieced together.
THEOREM RootsAuthorised ==
  ASSUME \A s \in Sessions : Len(Lineage[s]) = 1
  PROVE  Spec => []RepliesAuthorised
<1>1. TypeInv => PassedNotSetToAsk
  <2> SUFFICES ASSUME TypeInv, NEW r \in Requests PROVE ~Passing(r)
    BY DEF PassedNotSetToAsk
  <2>1. SessionOf[r] \in Sessions /\ work[r] \in Work
    BY PermissionBounds DEF TypeInv, TypeOK, Work
  <2>2. work[r].phase = "looking" => work[r].at \in DOMAIN Lineage[SessionOf[r]]
    BY <2>1, WorkPhases DEF TypeInv, Placed
  <2> QED
    BY <2>1, <2>2, Lineages DEF Passing
<1>2. TypeInv /\ [Next]_vars => [PassedNotSetToAsk]_vars
  BY <1>1
<1> QED
  BY <1>2, TypeInvCorrect, RepliesAuthorisedCorrect, PTL DEF Spec

-----------------------------------------------------------------------------
(* What is not answered is shown *)

\* No change of the policy takes an answering mode from a session, the
\* circumstance in which a request is known to stay hidden.
NobodyTurnedOff == \A s \in Sessions : Answers(mode, s) => Answers(mode', s)

\* The server, once it works on a request, answers or leaves it: its session
\* answers, and a walk has the mode that does still ahead.
Bound(r) ==
  /\ AutoAnswering(mode, r)
  /\ work[r].phase = "looking" =>
       /\ work[r].at + 1 \in DOMAIN Lineage[SessionOf[r]]
       /\ Answers(mode, Lineage[SessionOf[r]][work[r].at + 1])

\* It does work on it.
Sure(r) == Bound(r) /\ work[r] # Idle

AskedAt(messages, n, r) == messages[n].type = "asked" /\ messages[n].request = r

\* The client will hear, after the n-th message, that a request is left.
LeftAfter(messages, n, r) ==
  \E k \in DOMAIN messages : k > n /\ messages[k].type = "left" /\ messages[k].request = r

\* A request that the client holds back from the n-th message on will be
\* answered, or shown.
Handled(messages, n, r) == Bound(r) /\ (work[r] # Idle \/ LeftAfter(messages, n, r))

\* Before the n-th message the client knows a policy in which a session answers.
Believes(modes, messages, n, s) ==
  \/ Answers(modes, s)
  \/ \E k \in DOMAIN messages : k < n /\ messages[k].type = "updated" /\ Answers(messages[k].modes, s)

\* The client's policies are old ones: a session that answers in one does so now.
Behind == \A s \in Sessions : Believes(cmode, stream, Len(stream) + 1, s) => Answers(mode, s)

\* A request that the client will hold back is being answered or left.
HeldBack ==
  \A r \in Open : \A n \in DOMAIN stream :
    AskedAt(stream, n, r) /\ Believes(cmode, stream, n, SessionOf[r]) => Handled(stream, n, r)

\* One that it holds back is, if anything is done about it.
HeldBound == \A r \in Open \cap held : Bound(r)

\* The client will hear of a request, or of another connection.
Expected(messages, r) ==
  \/ \E n \in DOMAIN messages : messages[n].type = "ready" \/ AskedAt(messages, n, r)
  \/ r \in held /\ (work[r] # Idle \/ LeftAfter(messages, 0, r))

\* A re-read has it, will have it, or has failed to show it.
ReadAgain(r) ==
  resync = ToBeRead \/ (resync.phase = "answered" /\ r \in resync.listed) \/ r \in overlooked

\* What a client that is connected does not show it will hear of or read.
Hidden == connected /\ upstream => \A r \in Open \ shown : ReadAgain(r) \/ Expected(stream, r)

HiddenInv ==
  /\ Behind /\ HeldBack /\ HeldBound /\ Hidden
  /\ ~connected => stream = <<>>
  /\ \A n \in DOMAIN stream : stream[n].type = "replied" => state[stream[n].request] # "open"

\* Work that is not begun, ends, goes on, or looks at the modes anew leaves a
\* request bound.
LEMMA BoundKept ==
  ASSUME NobodyTurnedOff \/ UNCHANGED mode, NEW r \in Requests, Bound(r),
         work'[r] = work[r] \/ work'[r].phase # "looking"
  PROVE  Bound(r)'
<1>1. SessionOf[r] \in Sessions
  BY PermissionBounds
<1>2. \A s \in Sessions : Answers(mode, s) => Answers(mode', s)
  BY DEF NobodyTurnedOff
<1>3. AutoAnswering(mode', r)
  BY <1>1, <1>2 DEF Bound, AutoAnswering, Answers
<1>4. CASE work'[r] = work[r]
  <2>1. work[r].phase = "looking" =>
          /\ work[r].at + 1 \in DOMAIN Lineage[SessionOf[r]]
          /\ Answers(mode', Lineage[SessionOf[r]][work[r].at + 1])
    BY <1>1, <1>2, Lineages DEF Bound
  <2> QED
    BY <1>3, <1>4, <2>1 DEF Bound
<1>5. CASE work'[r].phase # "looking"
  BY <1>3, <1>5 DEF Bound
<1> QED
  BY <1>4, <1>5

\* A walk with an answering mode ahead finds it, or goes on towards it.
LEMMA WalkSure ==
  ASSUME TypeInv, NEW r \in Requests, NEW i \in DOMAIN Lineage[SessionOf[r]], Walks(r, i),
         UNCHANGED mode, AutoAnswering(mode, r), Answers(mode, Lineage[SessionOf[r]][i])
  PROVE  Sure(r)'
<1> DEFINE s == SessionOf[r]
<1>1. s \in Sessions /\ i \in Nat \ {0}
  <2>1. s \in Sessions
    BY PermissionBounds
  <2> QED
    BY <2>1, Lineages
<1>2. work \in [Requests -> Work]
  BY DEF TypeInv, TypeOK, Work
<1>3. PICK p \in DOMAIN Lineage[s] :
        /\ p >= i /\ mode[Lineage[s][p]] \notin {Unset, "ask"}
        /\ \A k \in DOMAIN Lineage[s] : k >= i /\ mode[Lineage[s][k]] # Unset => p <= k
  BY <1>1, AheadAnswers DEF Ahead
<1>4. \/ \A k \in DOMAIN Lineage[s] : k >= i => mode[Lineage[s][k]] = Unset
      \/ \E j \in DOMAIN Lineage[s] :
           /\ j >= i /\ mode[Lineage[s][j]] = "ask"
           /\ \A k \in DOMAIN Lineage[s] : k >= i /\ k < j => mode[Lineage[s][k]] = Unset
      \/ \E j \in DOMAIN Lineage[s] :
           /\ j >= i /\ work'[r].at = j
           /\ \A k \in DOMAIN Lineage[s] : k >= i /\ k < j => mode[Lineage[s][k]] = Unset
           /\ \/ work'[r].phase \in {"evaluating", "replying"}
              \/ work'[r].phase = "looking" /\ mode[Lineage[s][j]] = Unset
  BY <1>1, <1>2, WalkCases
<1>5. ~ \A k \in DOMAIN Lineage[s] : k >= i => mode[Lineage[s][k]] = Unset
  BY <1>3
<1>6. ASSUME NEW j \in DOMAIN Lineage[s], j >= i, mode[Lineage[s][j]] = "ask",
             \A k \in DOMAIN Lineage[s] : k >= i /\ k < j => mode[Lineage[s][k]] = Unset
      PROVE  FALSE
  <2>1. p <= j
    BY <1>3, <1>6 DEF Unset
  <2>2. p = j \/ p < j
    BY <1>1, <2>1, Lineages
  <2> QED
    BY <1>3, <1>6, <2>2
<1>7. ASSUME NEW j \in DOMAIN Lineage[s], j >= i, work'[r].at = j,
             \A k \in DOMAIN Lineage[s] : k >= i /\ k < j => mode[Lineage[s][k]] = Unset,
             work'[r].phase = "looking", mode[Lineage[s][j]] = Unset
      PROVE  Sure(r)'
  <2>1. \A k \in DOMAIN Lineage[s] : k >= i /\ mode[Lineage[s][k]] # Unset => k >= j + 1
    BY <1>1, <1>7, Lineages
  <2>2. p >= j + 1
    BY <1>3, <2>1
  <2>3. j + 1 \in DOMAIN Lineage[s]
    BY <1>1, <2>2, Lineages
  <2>4. \A k \in DOMAIN Lineage[s] : k >= j + 1 => k >= i
    BY <1>1, <1>7, Lineages
  <2>5. Ahead(mode, s, j + 1)
    BY <1>3, <2>2, <2>4 DEF Ahead
  <2>6. Answers(mode, Lineage[s][j + 1])
    BY <1>1, <2>3, <2>5, AheadAnswers
  <2> QED
    BY <1>7, <2>3, <2>6 DEF Sure, Bound, Idle, AutoAnswering, Answers
<1>8. work'[r].phase \in {"evaluating", "replying"} => Sure(r)'
  BY DEF Sure, Bound, Idle, AutoAnswering
<1> QED
  BY <1>4, <1>5, <1>6, <1>7, <1>8

\* What is open and not shown the client hears nothing more of, or will hear of.
LEMMA UnheardOrExpected ==
  ASSUME connected, upstream, NEW messages \in Seq(Messages), NEW r \in Open \ shown
  PROVE  r \in Unheard(messages) \/ Expected(messages, r)
<1> SUFFICES ASSUME r \notin Unheard(messages) PROVE Expected(messages, r)
  OBVIOUS
<1>1. Range(messages) = {messages[n] : n \in DOMAIN messages}
  BY DEF Range
<1>2. CASE \E m \in Range(messages) : m.type = "ready"
  BY <1>1, <1>2 DEF Expected
<1>3. CASE r \in Coming(messages) /\ r \in AboutIn("asked", messages)
  BY <1>1, <1>3 DEF AboutIn, Expected, AskedAt
<1>4. CASE r \in held /\ work[r] # Idle
  BY <1>4 DEF Expected
<1>5. CASE r \in held /\ r \in AboutIn("left", messages)
  <2>1. PICK k \in DOMAIN messages : messages[k].type = "left" /\ messages[k].request = r
    BY <1>1, <1>5 DEF AboutIn
  <2>2. k > 0
    OBVIOUS
  <2>3. LeftAfter(messages, 0, r)
    BY <2>1, <2>2 DEF LeftAfter
  <2> QED
    BY <1>5, <2>3 DEF Expected
<1> QED
  BY <1>2, <1>3, <1>4, <1>5 DEF Unheard, Coming

\* What one more message changes for those before it.
LEMMA MessagesAppended ==
  ASSUME NEW messages \in Seq(Messages), NEW m \in Messages
  PROVE  LET longer == messages \o <<m>> IN
         /\ longer \in Seq(Messages) /\ Len(longer) = Len(messages) + 1 /\ Len(messages) \in Nat
         /\ DOMAIN messages = 1 .. Len(messages) /\ DOMAIN longer = 1 .. Len(messages) + 1
         /\ longer[Len(messages) + 1] = m
         /\ \A n \in DOMAIN messages : longer[n] = messages[n]
         /\ \A n, r : LeftAfter(messages, n, r) => LeftAfter(longer, n, r)
         /\ \A n \in 1 .. Len(messages) + 1 : \A modes, s :
              Believes(modes, longer, n, s) => Believes(modes, messages, n, s)
         /\ \A modes, s : Believes(modes, longer, Len(messages) + 2, s) =>
              \/ Believes(modes, messages, Len(messages) + 1, s)
              \/ m.type = "updated" /\ Answers(m.modes, s)
<1> DEFINE longer == messages \o <<m>>
<1>1. /\ longer \in Seq(Messages) /\ Len(longer) = Len(messages) + 1 /\ Len(messages) \in Nat
      /\ DOMAIN messages = 1 .. Len(messages) /\ DOMAIN longer = 1 .. Len(messages) + 1
      /\ longer[Len(messages) + 1] = m
      /\ \A n \in DOMAIN messages : longer[n] = messages[n]
  OBVIOUS
<1> HIDE DEF longer
<1>2. DOMAIN messages \subseteq DOMAIN longer
  BY <1>1
<1>3. \A n, r : LeftAfter(messages, n, r) => LeftAfter(longer, n, r)
  BY <1>1, <1>2 DEF LeftAfter
<1>4. ASSUME NEW n \in 1 .. Len(messages) + 1, NEW modes, NEW s, Believes(modes, longer, n, s)
      PROVE  Believes(modes, messages, n, s)
  <2>1. \A k \in DOMAIN longer : k < n => k \in DOMAIN messages
    BY <1>1
  <2> QED
    BY <1>1, <1>4, <2>1 DEF Believes
<1>5. ASSUME NEW modes, NEW s, Believes(modes, longer, Len(messages) + 2, s)
      PROVE  \/ Believes(modes, messages, Len(messages) + 1, s)
             \/ m.type = "updated" /\ Answers(m.modes, s)
  <2>1. \A k \in DOMAIN longer : (k \in DOMAIN messages /\ k < Len(messages) + 1) \/ k = Len(messages) + 1
    BY <1>1
  <2> QED
    BY <1>1, <1>5, <2>1 DEF Believes
<1> QED
  BY <1>1, <1>3, <1>4, <1>5 DEF longer

\* A step of the server that nobody asks in: the client is sent at most one
\* message, and hears of what is no longer worked on.
LEMMA ServedHidden ==
  ASSUME TypeInv, HiddenInv, NobodyTurnedOff \/ UNCHANGED mode, UNCHANGED client,
         \A r \in Requests : state'[r] = "open" => state[r] = "open",
         \A r \in Open' : Bound(r) => Bound(r)',
         NEW m,
         \/ /\ UNCHANGED stream /\ (upstream' => upstream)
            /\ \A r \in Open' : Sure(r) => work'[r] # Idle
         \/ /\ Post(<<m>>) /\ m \in Messages /\ m.type # "asked"
            /\ upstream' => upstream \/ m.type = "ready"
            /\ m.type = "updated" => m.modes = mode'
            /\ m.type = "replied" => state'[m.request] # "open"
            /\ \A r \in Open' : Sure(r) => work'[r] # Idle \/ (m.type = "left" /\ m.request = r)
  PROVE  HiddenInv'
<1>1. Open' \subseteq Open /\ UNCHANGED <<connected, cmode, shown, held, booting, resync, overlooked>>
  BY DEF Open, client
<1>2. \A s \in Sessions : Answers(mode, s) => Answers(mode', s)
  BY DEF NobodyTurnedOff
<1>3. stream \in Seq(Messages)
  BY DEF TypeInv, TypeOK
<1>4. \A n \in DOMAIN stream : stream[n].type = "replied" => state'[stream[n].request] # "open"
  BY <1>3 DEF HiddenInv, Messages
<1>5. HeldBound'
  BY <1>1 DEF HiddenInv, HeldBound
<1>6. ASSUME NEW r \in Open' PROVE ReadAgain(r)' <=> ReadAgain(r)
  BY <1>1 DEF ReadAgain
<1>7. CASE /\ UNCHANGED stream /\ (upstream' => upstream)
           /\ \A r \in Open' : Sure(r) => work'[r] # Idle
  <2>1. Behind'
    BY <1>1, <1>2, <1>7 DEF HiddenInv, Behind
  <2>2. ASSUME NEW r \in Open', NEW n, Handled(stream, n, r) PROVE Handled(stream, n, r)'
    BY <1>7, <2>2 DEF Handled, Sure
  <2>3. HeldBack'
    BY <1>1, <1>7, <2>2 DEF HiddenInv, HeldBack
  <2>4. ASSUME NEW r \in Open', Expected(stream, r) PROVE Expected(stream, r)'
    BY <1>1, <1>5, <1>7, <2>4 DEF Expected, HiddenInv, HeldBound, Sure
  <2>5. Hidden'
    BY <1>1, <1>6, <1>7, <2>4 DEF HiddenInv, Hidden
  <2> QED
    BY <1>1, <1>4, <1>5, <1>7, <2>1, <2>3, <2>5 DEF HiddenInv
<1>8. CASE /\ stream' = stream \o <<m>> /\ connected
           /\ m \in Messages /\ m.type # "asked"
           /\ upstream' => upstream \/ m.type = "ready"
           /\ m.type = "updated" => m.modes = mode'
           /\ m.type = "replied" => state'[m.request] # "open"
           /\ \A r \in Open' : Sure(r) => work'[r] # Idle \/ (m.type = "left" /\ m.request = r)
  <2>1. /\ Len(stream') = Len(stream) + 1 /\ Len(stream) \in Nat
        /\ DOMAIN stream = 1 .. Len(stream) /\ DOMAIN stream' = 1 .. Len(stream) + 1
        /\ stream'[Len(stream) + 1] = m
        /\ \A n \in DOMAIN stream : stream'[n] = stream[n]
        /\ \A n, r : LeftAfter(stream, n, r) => LeftAfter(stream', n, r)
        /\ \A n \in 1 .. Len(stream) + 1 : \A modes, s :
             Believes(modes, stream', n, s) => Believes(modes, stream, n, s)
        /\ \A modes, s : Believes(modes, stream', Len(stream) + 2, s) =>
             \/ Believes(modes, stream, Len(stream) + 1, s)
             \/ m.type = "updated" /\ Answers(m.modes, s)
    BY <1>3, <1>8, MessagesAppended
  <2>2. \A n \in DOMAIN stream' : \A r : AskedAt(stream', n, r) => n \in DOMAIN stream /\ AskedAt(stream, n, r)
    <3>1. \A n \in DOMAIN stream' : n \in DOMAIN stream \/ n = Len(stream) + 1
      BY <2>1
    <3> QED
      BY <1>8, <2>1, <3>1 DEF AskedAt
  \* What is no longer worked on is left, by the new message.
  <2>3. ASSUME NEW r \in Open', NEW n \in 0 .. Len(stream), Handled(stream, n, r)
        PROVE  Handled(stream, n, r)'
    <3>1. CASE m.type = "left" /\ m.request = r
      <4>1. Len(stream) + 1 \in DOMAIN stream' /\ Len(stream) + 1 > n
        BY <2>1
      <4>2. LeftAfter(stream', n, r)
        BY <2>1, <3>1, <4>1 DEF LeftAfter
      <4> QED
        BY <2>3, <4>2 DEF Handled
    <3> QED
      BY <1>8, <2>1, <2>3, <3>1 DEF Handled, Sure
  <2>4. Behind'
    <3> SUFFICES ASSUME NEW s \in Sessions, Believes(cmode', stream', Len(stream') + 1, s)
                 PROVE  Answers(mode', s)
      BY DEF Behind
    <3>1. Len(stream') + 1 = Len(stream) + 2
      BY <2>1
    <3>2. Believes(cmode, stream, Len(stream) + 1, s) \/ Answers(mode', s)
      BY <1>1, <1>8, <2>1, <3>1
    <3> QED
      BY <1>2, <3>2 DEF HiddenInv, Behind
  <2>5. HeldBack'
    <3> SUFFICES ASSUME NEW r \in Open', NEW n \in DOMAIN stream', AskedAt(stream', n, r),
                        Believes(cmode', stream', n, SessionOf[r])
                 PROVE  Handled(stream, n, r)'
      BY DEF HeldBack
    <3>1. n \in DOMAIN stream /\ AskedAt(stream, n, r) /\ n \in 1 .. Len(stream) + 1 /\ n \in 0 .. Len(stream)
      BY <2>1, <2>2
    <3>2. Believes(cmode, stream, n, SessionOf[r])
      BY <1>1, <2>1, <3>1
    <3>3. Handled(stream, n, r)
      BY <1>1, <3>1, <3>2 DEF HiddenInv, HeldBack
    <3> QED
      BY <2>3, <3>1, <3>3
  <2>6. ASSUME connected, upstream', NEW r \in Open', r \notin shown
        PROVE  ReadAgain(r) \/ Expected(stream, r)'
    <3>1. CASE m.type = "ready"
      <4>1. Len(stream) + 1 \in DOMAIN stream'
        BY <2>1
      <4> QED
        BY <2>1, <3>1, <4>1 DEF Expected
    <3>2. CASE m.type # "ready"
      <4>1. ReadAgain(r) \/ Expected(stream, r)
        BY <1>1, <1>8, <2>6, <3>2 DEF HiddenInv, Hidden
      <4>2. \A n \in DOMAIN stream : /\ n \in DOMAIN stream' /\ stream'[n] = stream[n]
                                     /\ AskedAt(stream, n, r) => AskedAt(stream', n, r)
        BY <2>1 DEF AskedAt
      <4>3. CASE \E n \in DOMAIN stream : stream[n].type = "ready" \/ AskedAt(stream, n, r)
        BY <4>2, <4>3 DEF Expected
      <4>4. CASE r \in held /\ (work[r] # Idle \/ LeftAfter(stream, 0, r))
        <5>1. Bound(r)
          BY <1>1, <4>4 DEF HiddenInv, HeldBound
        <5>2. 0 \in 0 .. Len(stream)
          BY <2>1
        <5>3. Handled(stream, 0, r)'
          BY <2>3, <4>4, <5>1, <5>2 DEF Handled
        <5> QED
          BY <1>1, <4>4, <5>3 DEF Handled, Expected
      <4> QED
        BY <4>1, <4>3, <4>4 DEF Expected
    <3> QED
      BY <3>1, <3>2
  <2>7. Hidden'
    BY <1>1, <1>6, <2>6 DEF Hidden
  <2>8. \A n \in DOMAIN stream' : stream'[n].type = "replied" => state'[stream'[n].request] # "open"
    <3>1. \A n \in DOMAIN stream' : n \in DOMAIN stream \/ n = Len(stream) + 1
      BY <2>1
    <3> QED
      BY <1>4, <1>8, <2>1, <3>1
  <2> QED
    BY <1>1, <1>5, <1>8, <2>4, <2>5, <2>7, <2>8 DEF HiddenInv
\* A client that is not connected is sent nothing.
<1>9. CASE UNCHANGED stream /\ ~connected
  <2>1. stream = <<>>
    BY <1>9 DEF HiddenInv
  <2>2. DOMAIN stream = {}
    BY <2>1
  <2>3. Behind'
    BY <1>1, <1>2, <1>9 DEF HiddenInv, Behind
  <2> QED
    BY <1>1, <1>4, <1>5, <1>9, <2>1, <2>2, <2>3 DEF HiddenInv, HeldBack, Hidden
<1> QED
  BY <1>7, <1>8, <1>9 DEF Post

\* One step of what the server does about a request.
LEMMA ProcessingHidden ==
  ASSUME TypeInv, HiddenInv, NEW q \in Requests,
         Processing(q) \/ AttemptFails(q) \/ ResponseLost(q)
  PROVE  HiddenInv'
<1> DEFINE left == [type |-> "left", request |-> q]
           replied == [type |-> "replied", request |-> q]
<1>1. /\ UNCHANGED <<mode, upstream, client>>
      /\ \A p \in Requests : state'[p] = "open" => state[p] = "open"
      /\ \A p \in Requests \ {q} : work'[p] = work[p]
  BY DEF Processing, Retry, Resolve, LookUp, Accepted, Held, Replied, AttemptFails, ResponseLost, Walks,
         Ends, Continues, LeftForUser, GivesUp, Answer, GoesWrong, TypeInv, TypeOK, openCode, policy, pending
<1>2. work[q] \in Work /\ SessionOf[q] \in Sessions
  BY PermissionBounds DEF TypeInv, TypeOK, Work
<1>3. left \in Messages /\ replied \in Messages
  BY DEF Messages
<1>4. \A r \in Requests \ {q} : (Bound(r) => Bound(r)') /\ (Sure(r) => work'[r] # Idle)
  BY <1>1, BoundKept DEF Sure
<1>5. \A r \in Open' : r \in Requests
  BY DEF Open
<1>6. ASSUME UNCHANGED stream, q \in Open' /\ Bound(q) => Bound(q)', q \in Open' /\ Sure(q) => work'[q] # Idle
      PROVE  HiddenInv'
  <2>1. \A r \in Open' : (Bound(r) => Bound(r)') /\ (Sure(r) => work'[r] # Idle)
    BY <1>4, <1>5, <1>6
  <2> QED
    BY <1>1, <1>6, <2>1, ServedHidden
<1>7. ASSUME Post(<<left>>), Ends(q) PROVE HiddenInv'
  <2>1. /\ left \in Messages /\ left.type = "left"
        /\ \A r \in Open' : Sure(r) => work'[r] # Idle \/ (left.type = "left" /\ left.request = r)
    BY <1>3, <1>4, <1>5
  <2>2. work'[q].phase # "looking"
    BY <1>7 DEF Ends, Idle, TypeInv, TypeOK
  <2>3. \A r \in Open' : Bound(r) => Bound(r)'
    BY <1>1, <1>4, <1>5, <2>2, BoundKept
  <2> HIDE DEF left
  <2> QED
    BY <1>1, <1>7, <2>1, <2>3, ServedHidden
<1>8. CASE Replied(q) \/ ResponseLost(q)
  <2>1. Post(<<replied>>) \/ UNCHANGED stream
    BY <1>8 DEF Replied, ResponseLost, Answer, About
  <2>2. state'[q] # "open"
    BY <1>8 DEF Replied, ResponseLost, Answer, TypeInv, TypeOK
  <2>3. q \notin Open'
    BY <2>2 DEF Open
  <2>4. CASE UNCHANGED stream
    BY <1>6, <2>3, <2>4
  <2>5. CASE Post(<<replied>>)
    <3>1. /\ replied \in Messages /\ replied.type = "replied" /\ replied.request = q
          /\ \A r \in Open' : (Bound(r) => Bound(r)') /\ (Sure(r) => work'[r] # Idle)
      BY <1>3, <1>4, <1>5, <2>3
    <3> HIDE DEF replied
    <3> QED
      BY <1>1, <2>2, <2>5, <3>1, ServedHidden
  <2> QED
    BY <2>1, <2>4, <2>5
<1>9. CASE Held(q)
  BY <1>7, <1>9 DEF Held, LeftForUser, About
<1>10. CASE AttemptFails(q)
  <2>1. CASE UNCHANGED stream /\ work'[q].phase = "delayed"
    <3>1. work'[q] # Idle /\ work'[q].phase # "looking"
      BY <2>1 DEF Idle
    <3> QED
      BY <1>1, <1>6, <2>1, <3>1, BoundKept
  <2>2. CASE LeftForUser(q)
    BY <1>7, <2>2 DEF LeftForUser, About
  <2> QED
    BY <1>10, <2>1, <2>2 DEF AttemptFails, GivesUp, TypeInv, TypeOK
<1>11. CASE Retry(q) \/ Accepted(q)
  <2>1. UNCHANGED stream /\ work'[q].phase \in {"resolving", "replying"}
    BY <1>11 DEF Retry, Begun, Accepted, Continues, TypeInv, TypeOK
  <2>2. work'[q] # Idle /\ work'[q].phase # "looking"
    BY <2>1 DEF Idle
  <2> QED
    BY <1>1, <1>6, <2>1, <2>2, BoundKept
<1>12. CASE Resolve(q)
  <2>1. UNCHANGED stream /\ Walks(q, 1)
    BY <1>12 DEF Resolve
  <2>2. 1 \in DOMAIN Lineage[SessionOf[q]] /\ Lineage[SessionOf[q]][1] = SessionOf[q]
    BY <1>2, Lineages
  <2>3. Bound(q) => Sure(q)'
    BY <1>1, <2>1, <2>2, WalkSure DEF Bound, AutoAnswering, Answers
  <2> QED
    BY <1>6, <2>1, <2>3 DEF Sure
<1>13. CASE LookUp(q)
  <2>1. UNCHANGED stream /\ Walks(q, work[q].at + 1) /\ work[q].phase = "looking"
    BY <1>13 DEF LookUp
  <2>2. Bound(q) => Sure(q)'
    BY <1>1, <2>1, WalkSure DEF Bound
  <2> QED
    BY <1>6, <2>1, <2>2 DEF Sure
<1> QED
  BY <1>8, <1>9, <1>10, <1>11, <1>12, <1>13 DEF Processing

\* A request is asked: whether the client will hold it back it decides by a
\* policy that is no newer than the one the server begins to look at.
LEMMA AskHidden ==
  ASSUME TypeInv, HiddenInv, NEW q \in Requests, Ask(q)
  PROVE  HiddenInv'
<1> DEFINE m == [type |-> "asked", request |-> q]
<1>1. /\ UNCHANGED <<mode, upstream, connected, cmode, shown, held, resync, overlooked>>
      /\ state' = [state EXCEPT ![q] = "open"] /\ state[q] = "no"
      /\ IF upstream THEN work' = Working({q}) /\ Post(<<m>>) ELSE UNCHANGED <<work, stream>>
  BY DEF Ask, policy, client, About
<1>2. work[q] = Idle /\ q \notin shown \cup held
  BY <1>1 DEF TypeInv, TypeOK, Asked
<1>3. \A r \in Requests : work[r] # Idle => work'[r] = work[r]
  BY <1>1 DEF Working
<1>4. \A r \in Requests : Bound(r) => Bound(r)'
  <2>1. \A r \in Requests : work'[r] = work[r] \/ work'[r].phase # "looking"
    BY <1>1 DEF Working, Begun, TypeInv, TypeOK
  <2> QED
    BY <1>1, <2>1, BoundKept
<1>5. \A r \in Open' : r \in Requests /\ (r # q => r \in Open)
  BY <1>1 DEF Open, TypeInv, TypeOK
<1>6. HeldBound'
  <2> SUFFICES ASSUME NEW r \in Open' \cap held PROVE Bound(r)'
    BY <1>1 DEF HeldBound
  <2>1. r # q /\ r \in Open /\ r \in Requests
    BY <1>2, <1>5
  <2> QED
    BY <1>4, <2>1 DEF HiddenInv, HeldBound
<1>7. stream \in Seq(Messages) /\ m \in Messages /\ m.type = "asked" /\ m.request = q
  BY DEF TypeInv, TypeOK, Messages
<1>8. \A n \in DOMAIN stream : stream[n].type \notin {"updated", "ready"} => stream[n].request # q
  BY <1>1 DEF TypeInv, Asked
<1>9. \A n \in DOMAIN stream : stream[n].type = "replied" => state'[stream[n].request] # "open"
  <2>1. \A n \in DOMAIN stream : stream[n].type = "replied" =>
          stream[n].request # q /\ stream[n].request \in Requests
    BY <1>7, <1>8 DEF Messages
  <2> QED
    BY <1>1, <2>1 DEF HiddenInv, TypeInv, TypeOK
<1> HIDE DEF m
<1>10. CASE stream' = stream \o <<m>> /\ connected /\ upstream
  <2>1. /\ Len(stream') = Len(stream) + 1 /\ Len(stream) \in Nat
        /\ DOMAIN stream = 1 .. Len(stream) /\ DOMAIN stream' = 1 .. Len(stream) + 1
        /\ stream'[Len(stream) + 1] = m
        /\ \A n \in DOMAIN stream : stream'[n] = stream[n]
        /\ \A n, r : LeftAfter(stream, n, r) => LeftAfter(stream', n, r)
        /\ \A n \in 1 .. Len(stream) + 1 : \A modes, s :
             Believes(modes, stream', n, s) => Believes(modes, stream, n, s)
        /\ \A modes, s : Believes(modes, stream', Len(stream) + 2, s) =>
             Believes(modes, stream, Len(stream) + 1, s)
    BY <1>7, <1>10, MessagesAppended
  <2>2. Behind'
    <3>1. Len(stream') + 1 = Len(stream) + 2
      BY <2>1
    <3> QED
      BY <1>1, <2>1, <3>1 DEF HiddenInv, Behind
  <2>3. ASSUME NEW r \in Open', NEW n \in DOMAIN stream', AskedAt(stream', n, r),
               Believes(cmode, stream', n, SessionOf[r])
        PROVE  Handled(stream, n, r)'
    <3>1. CASE n \in DOMAIN stream
      <4>1. AskedAt(stream, n, r) /\ r \in Open
        BY <1>5, <1>8, <2>1, <2>3, <3>1 DEF AskedAt
      <4>2. n \in 1 .. Len(stream) + 1
        BY <2>1, <3>1
      <4>3. Believes(cmode, stream, n, SessionOf[r])
        BY <2>1, <2>3, <4>2
      <4>4. Handled(stream, n, r)
        BY <3>1, <4>1, <4>3 DEF HiddenInv, HeldBack
      <4> QED
        BY <1>3, <1>4, <1>5, <2>1, <4>4 DEF Handled
    <3>2. CASE n = Len(stream) + 1
      <4>1. r = q
        BY <1>7, <2>1, <2>3, <3>2 DEF AskedAt
      <4>2. SessionOf[q] \in Sessions /\ Len(stream) + 1 \in 1 .. Len(stream) + 1
        BY <2>1, PermissionBounds
      <4>3. Believes(cmode, stream, Len(stream) + 1, SessionOf[q])
        BY <2>1, <2>3, <3>2, <4>1, <4>2
      <4>4. Answers(mode, SessionOf[q])
        BY <4>2, <4>3 DEF HiddenInv, Behind
      <4>5. work'[q] = Begun(1)
        BY <1>1, <1>2, <1>10 DEF Working
      <4> QED
        BY <1>1, <4>1, <4>4, <4>5 DEF Handled, Bound, Begun, Idle, AutoAnswering, Answers
    <3> QED
      BY <2>1, <3>1, <3>2
  <2>4. ASSUME NEW r \in Open', r \notin shown
        PROVE  ReadAgain(r) \/ Expected(stream, r)'
    <3>1. CASE r = q
      <4>1. Len(stream) + 1 \in DOMAIN stream' /\ AskedAt(stream', Len(stream) + 1, q)
        BY <1>7, <2>1 DEF AskedAt
      <4> QED
        BY <3>1, <4>1 DEF Expected
    <3>2. CASE r # q
      <4>1. ReadAgain(r) \/ Expected(stream, r)
        BY <1>5, <1>10, <2>4, <3>2 DEF HiddenInv, Hidden
      <4>2. \A n \in DOMAIN stream : /\ n \in DOMAIN stream' /\ stream'[n] = stream[n]
                                     /\ AskedAt(stream, n, r) => AskedAt(stream', n, r)
        BY <2>1 DEF AskedAt
      <4> QED
        BY <1>1, <1>3, <1>5, <2>1, <2>4, <4>1, <4>2 DEF Expected
    <3> QED
      BY <3>1, <3>2
  <2>5. \A n \in DOMAIN stream' : stream'[n].type = "replied" => state'[stream'[n].request] # "open"
    <3>1. \A n \in DOMAIN stream' : n \in DOMAIN stream \/ n = Len(stream) + 1
      BY <2>1
    <3> QED
      BY <1>7, <1>9, <2>1, <3>1
  <2>6. HeldBack'
    BY <1>1, <2>3 DEF HeldBack
  <2>7. Hidden'
    BY <1>1, <2>4 DEF Hidden, ReadAgain
  <2> QED
    BY <1>1, <1>10, <1>6, <2>2, <2>5, <2>6, <2>7 DEF HiddenInv
<1>11. CASE UNCHANGED stream /\ (~connected \/ ~upstream)
  <2>1. Behind'
    BY <1>1, <1>11 DEF HiddenInv, Behind
  <2>2. ASSUME NEW r \in Open', NEW n \in DOMAIN stream, AskedAt(stream, n, r) PROVE r \in Open
    BY <1>5, <1>8, <2>2 DEF AskedAt
  <2>3. HeldBack'
    <3> SUFFICES ASSUME NEW r \in Open', NEW n \in DOMAIN stream, AskedAt(stream, n, r),
                        Believes(cmode, stream, n, SessionOf[r])
                 PROVE  Handled(stream, n, r)'
      BY <1>1, <1>11 DEF HeldBack
    <3>1. Handled(stream, n, r)
      BY <2>2 DEF HiddenInv, HeldBack
    <3> QED
      BY <1>3, <1>4, <1>5, <1>11, <3>1 DEF Handled
  <2>4. Hidden'
    BY <1>1, <1>11 DEF Hidden
  <2> QED
    BY <1>1, <1>9, <1>11, <1>6, <2>1, <2>3, <2>4 DEF HiddenInv
<1> QED
  BY <1>1, <1>10, <1>11 DEF Post

\* The client takes the next message: what it no longer expects it shows or
\* holds back, and what it is told is left it shows.
LEMMA ReceiveHidden ==
  ASSUME TypeInv, HiddenInv, Receive
  PROVE  HiddenInv'
<1> DEFINE m == Head(stream)
<1>1. /\ stream \in Seq(Messages) /\ stream # <<>> /\ stream' = Tail(stream)
      /\ UNCHANGED <<mode, work, state, upstream, connected>>
      /\ Tail(stream) \in Seq(Messages)
  BY DEF Receive, TypeInv, TypeOK, openCode, policy, pending
<1>2. /\ Len(stream) \in Nat \ {0} /\ Len(stream') = Len(stream) - 1
      /\ DOMAIN stream = 1 .. Len(stream) /\ DOMAIN stream' = 1 .. Len(stream) - 1
      /\ m = stream[1] /\ m \in Messages
      /\ \A n \in DOMAIN stream' : stream'[n] = stream[n + 1] /\ n + 1 \in DOMAIN stream
  BY <1>1
<1>3. \/ m.type = "asked" /\ ReceiveAsked(m.request) /\ UNCHANGED <<cmode, resync, overlooked>>
      \/ m.type = "left" /\ ReceiveLeft(m.request) /\ UNCHANGED <<cmode, resync, overlooked>>
      \/ m.type = "replied" /\ ReceiveReplied(m.request) /\ UNCHANGED <<cmode, resync, overlooked>>
      \/ m.type = "updated" /\ cmode' = m.modes /\ UNCHANGED <<shown, held, resync, overlooked>>
      \/ m.type = "ready" /\ ReceiveReady /\ UNCHANGED <<cmode, shown, held>>
  BY DEF Receive, reading
<1> HIDE DEF m
<1>4. ASSUME NEW n \in Nat, NEW r, LeftAfter(stream, n + 1, r) PROVE LeftAfter(stream', n, r)
  <2>1. PICK k \in DOMAIN stream : k > n + 1 /\ stream[k].type = "left" /\ stream[k].request = r
    BY <1>4 DEF LeftAfter
  <2>2. k - 1 \in DOMAIN stream' /\ k - 1 > n /\ (k - 1) + 1 = k
    BY <1>2, <2>1
  <2>3. stream'[k - 1] = stream[k]
    BY <1>2, <2>2
  <2> QED
    BY <2>1, <2>2, <2>3 DEF LeftAfter
<1>5. ASSUME NEW n \in 1 .. Len(stream), NEW s, Believes(cmode', stream', n, s)
      PROVE  Believes(cmode, stream, n + 1, s)
  <2>1. CASE Answers(cmode', s)
    <3>1. CASE UNCHANGED cmode
      BY <2>1, <3>1 DEF Believes
    <3>2. CASE m.type = "updated" /\ cmode' = m.modes
      <4>1. 1 \in DOMAIN stream /\ 1 < n + 1
        BY <1>2
      <4> QED
        BY <1>2, <2>1, <3>2, <4>1 DEF Believes
    <3> QED
      BY <1>3, <3>1, <3>2
  <2>2. ASSUME NEW k \in DOMAIN stream', k < n, stream'[k].type = "updated", Answers(stream'[k].modes, s)
        PROVE  Believes(cmode, stream, n + 1, s)
    <3>1. k + 1 \in DOMAIN stream /\ k + 1 < n + 1 /\ stream[k + 1] = stream'[k]
      BY <1>2, <2>2
    <3> QED
      BY <2>2, <3>1 DEF Believes
  <2> QED
    BY <1>5, <2>1, <2>2 DEF Believes
<1>6. \A r : Bound(r)' <=> Bound(r)
  BY <1>1 DEF Bound, AutoAnswering
<1>7. Open' = Open /\ \A r \in Open : r \in Requests
  BY <1>1 DEF Open
<1>8. Behind'
  <2>1. Len(stream') + 1 \in 1 .. Len(stream) /\ (Len(stream') + 1) + 1 = Len(stream) + 1
    BY <1>2
  <2>2. \A s : Believes(cmode', stream', Len(stream') + 1, s) => Believes(cmode, stream, Len(stream) + 1, s)
    BY <1>5, <2>1
  <2> QED
    BY <1>1, <2>2 DEF HiddenInv, Behind
<1>9. HeldBack'
  <2> SUFFICES ASSUME NEW r \in Open, NEW n \in DOMAIN stream', AskedAt(stream', n, r),
                      Believes(cmode', stream', n, SessionOf[r])
               PROVE  Handled(stream', n, r)
    BY <1>1, <1>6, <1>7 DEF HeldBack, Handled
  <2>1. n + 1 \in DOMAIN stream /\ AskedAt(stream, n + 1, r) /\ n \in 1 .. Len(stream) /\ n \in Nat
    BY <1>2 DEF AskedAt
  <2>2. Believes(cmode, stream, n + 1, SessionOf[r])
    BY <1>5, <2>1
  <2>3. Handled(stream, n + 1, r)
    BY <2>1, <2>2 DEF HiddenInv, HeldBack
  <2> QED
    BY <1>4, <2>1, <2>3 DEF Handled
\* What has just been asked is held back by what the client believes.
<1>10. ASSUME NEW r \in Open, m.type = "asked", m.request = r, r \in held', r \notin shown'
       PROVE  Handled(stream', 0, r)
  <2>1. AutoAnswering(cmode, r)
    BY <1>3, <1>10 DEF ReceiveAsked
  <2>2. 1 \in DOMAIN stream /\ AskedAt(stream, 1, r) /\ Believes(cmode, stream, 1, SessionOf[r])
    BY <1>2, <1>10, <2>1 DEF AskedAt, Believes, AutoAnswering, Answers
  <2>3. Handled(stream, 0 + 1, r)
    BY <2>2 DEF HiddenInv, HeldBack
  <2> QED
    BY <1>4, <2>3 DEF Handled
<1>11. HeldBound'
  <2> SUFFICES ASSUME NEW r \in Open, r \in held' PROVE Bound(r)
    BY <1>6, <1>7 DEF HeldBound
  <2>1. CASE r \in held
    BY <2>1 DEF HiddenInv, HeldBound
  <2>2. CASE r \notin held
    <3>1. m.type = "asked" /\ m.request = r /\ AutoAnswering(cmode, r)
      BY <1>3, <2>2 DEF ReceiveAsked, ReceiveLeft, ReceiveReplied
    <3>2. 1 \in DOMAIN stream /\ AskedAt(stream, 1, r) /\ Believes(cmode, stream, 1, SessionOf[r])
      BY <1>2, <3>1 DEF AskedAt, Believes, AutoAnswering, Answers
    <3> QED
      BY <3>2 DEF HiddenInv, HeldBack, Handled
  <2> QED
    BY <2>1, <2>2
<1>12. Hidden'
  <2> SUFFICES ASSUME connected, upstream, NEW r \in Open, r \notin shown'
               PROVE  ReadAgain(r)' \/ Expected(stream, r)'
    BY <1>1, <1>7 DEF Hidden
  <2>1. m.type # "replied" \/ m.request # r
    BY <1>2, <1>7 DEF HiddenInv, Open
  <2>2. r \notin shown
    BY <1>3, <2>1 DEF ReceiveAsked, ReceiveLeft, ReceiveReplied
  <2>3. ReadAgain(r) \/ Expected(stream, r)
    BY <2>2 DEF HiddenInv, Hidden
  \* A ready makes the client read again, or overlook what it hears nothing more of.
  <2>4. CASE m.type = "ready"
    <3>1. ReceiveReady /\ UNCHANGED <<shown, held>>
      BY <1>3, <2>4
    <3>2. CASE resync' = ToBeRead
      BY <3>2 DEF ReadAgain
    <3>3. CASE r \in Unheard(stream') /\ resync' # ToBeRead
      BY <1>1, <3>1, <3>3 DEF ReceiveReady, ReadAgain
    <3>4. r \in Unheard(stream') \/ Expected(stream', r)
      BY <1>1, <2>2, UnheardOrExpected
    <3>5. CASE Expected(stream', r)
      BY <1>1, <3>1, <3>5 DEF Expected
    <3> QED
      BY <3>2, <3>3, <3>4, <3>5
  <2>5. CASE m.type = "asked" /\ m.request = r
    <3>1. r \in held'
      BY <1>3, <2>5 DEF ReceiveAsked
    <3>2. Handled(stream', 0, r)
      BY <1>10, <2>5, <3>1
    <3> QED
      BY <1>1, <3>1, <3>2 DEF Handled, Expected
  \* The next message is about something else.
  <2>6. CASE m.type # "ready" /\ ~(m.type = "asked" /\ m.request = r)
    <3>1. (r \in held' <=> r \in held) /\ UNCHANGED <<resync, overlooked>>
      BY <1>3, <2>1, <2>6 DEF ReceiveAsked, ReceiveLeft, ReceiveReplied
    <3>2. ~(m.type = "left" /\ m.request = r) \/ r \notin held
      BY <1>3 DEF ReceiveLeft
    <3>3. ASSUME NEW n \in DOMAIN stream, stream[n].type = "ready" \/ AskedAt(stream, n, r)
          PROVE  \E k \in DOMAIN stream' : stream'[k].type = "ready" \/ AskedAt(stream', k, r)
      <4>1. n # 1
        BY <1>2, <2>6, <3>3 DEF AskedAt
      <4>2. n - 1 \in DOMAIN stream' /\ (n - 1) + 1 = n
        BY <1>2, <4>1
      <4>3. stream'[n - 1] = stream[n]
        BY <1>2, <4>2
      <4> QED
        BY <3>3, <4>2, <4>3 DEF AskedAt
    <3>4. ASSUME r \in held, LeftAfter(stream, 0, r) PROVE LeftAfter(stream', 0, r)
      <4>1. PICK k \in DOMAIN stream : k > 0 /\ stream[k].type = "left" /\ stream[k].request = r
        BY <3>4 DEF LeftAfter
      <4>2. k # 1
        BY <1>2, <3>2, <3>4, <4>1
      <4>3. k > 0 + 1
        BY <1>2, <4>1, <4>2
      <4> QED
        BY <1>4, <4>1, <4>3 DEF LeftAfter
    <3>5. CASE ReadAgain(r)
      BY <3>1, <3>5 DEF ReadAgain
    <3>6. CASE Expected(stream, r)
      BY <1>1, <3>1, <3>3, <3>4, <3>6 DEF Expected
    <3> QED
      BY <2>3, <3>5, <3>6
  <2> QED
    BY <2>4, <2>5, <2>6
<1>13. ~connected' => stream' = <<>>
  BY <1>1 DEF HiddenInv
<1>14. \A n \in DOMAIN stream' : stream'[n].type = "replied" => state'[stream'[n].request] # "open"
  BY <1>1, <1>2 DEF HiddenInv
<1> QED
  BY <1>8, <1>9, <1>12, <1>13, <1>14, <1>11 DEF HiddenInv

\* A re-read shows what it has, and what it takes from the screen or does not
\* have is overlooked, or the client will hear of it.
LEMMA ReadHidden ==
  ASSUME TypeInv, HiddenInv, StaleStatus \/ ReadAnswered \/ ReadFails \/ ReadApplied
  PROVE  HiddenInv'
<1>1. UNCHANGED <<state, mode, work, upstream, connected, cmode, held, stream>> /\ Open' = Open
  BY DEF StaleStatus, ReadAnswered, ReadFails, Answered, ReadApplied, openCode, policy, pending, Open
<1>2. \A r : Bound(r)' <=> Bound(r)
  BY <1>1 DEF Bound, AutoAnswering
<1>3. Behind' /\ HeldBack' /\ HeldBound'
  BY <1>1, <1>2 DEF HiddenInv, Behind, HeldBack, HeldBound, Handled
<1>4. ASSUME connected, upstream, NEW r \in Open, r \notin shown'
      PROVE  ReadAgain(r)' \/ Expected(stream, r)
  <2>1. CASE StaleStatus
    BY <2>1 DEF StaleStatus, ReadAgain
  <2>2. ASSUME NEW sessions, Answered(sessions) PROVE ReadAgain(r)' \/ Expected(stream, r)
    <3>1. /\ resync'.phase = "answered" /\ resync'.listed = {q \in Open : SessionOf[q] \in sessions}
          /\ overlooked' = overlooked \cup {q \in Unheard(stream) : SessionOf[q] \notin sessions}
          /\ UNCHANGED shown
      BY <2>2 DEF Answered
    <3>2. r \in Unheard(stream) \/ Expected(stream, r)
      BY <1>4, <3>1, UnheardOrExpected DEF TypeInv, TypeOK
    <3> QED
      BY <1>4, <3>1, <3>2 DEF ReadAgain
  <2>3. CASE ReadApplied
    <3>1. /\ resync.phase = "answered" /\ resync.listed \subseteq shown'
          /\ overlooked' = (overlooked \cup (Open \cap shown)) \ shown'
      BY <2>3 DEF ReadApplied
    <3>2. CASE r \in shown
      BY <1>4, <3>1, <3>2 DEF ReadAgain
    <3>3. CASE r \notin shown
      <4>1. ReadAgain(r) \/ Expected(stream, r)
        BY <1>4, <3>3 DEF HiddenInv, Hidden
      <4>2. ReadAgain(r) => r \in overlooked
        BY <1>4, <3>1 DEF ReadAgain, ToBeRead
      <4> QED
        BY <1>4, <3>1, <4>1, <4>2 DEF ReadAgain
    <3> QED
      BY <3>2, <3>3
  <2> QED
    BY <2>1, <2>2, <2>3 DEF ReadAnswered, ReadFails
<1>5. ASSUME NEW r, Expected(stream, r) PROVE Expected(stream, r)'
  BY <1>1, <1>5 DEF Expected
<1>6. Hidden'
  BY <1>1, <1>4, <1>5 DEF Hidden
<1> QED
  BY <1>1, <1>3, <1>6 DEF HiddenInv

\* The connections: a client that is connected again hears of it.
LEMMA ConnectionsHidden ==
  ASSUME TypeInv, HiddenInv, NobodyTurnedOff \/ UNCHANGED mode,
         Disconnect \/ ClientConnects \/ UpstreamConnects \/ Restart
  PROVE  HiddenInv'
<1>1. UNCHANGED <<state, cmode, held>> /\ Open' = Open
  BY DEF Disconnect, ClientConnects, UpstreamConnects, Restart, openCode, client, Open
<1>2. \A s \in Sessions : Answers(mode, s) => Answers(mode', s)
  BY DEF NobodyTurnedOff
<1>3. \A r \in Requests : work'[r] = work[r] \/ work'[r].phase # "looking"
  BY DEF Disconnect, ClientConnects, UpstreamConnects, Restart, pending, Idle
<1>4. HeldBound'
  <2>1. \A r \in Open : r \in Requests
    BY DEF Open
  <2> QED
    BY <1>1, <1>3, <2>1, BoundKept DEF HiddenInv, HeldBound
<1>5. CASE Disconnect \/ Restart
  <2>1. ~connected' /\ stream' = <<>>
    BY <1>5 DEF Disconnect, Restart
  <2>2. \A s \in Sessions : Believes(cmode, stream', Len(stream') + 1, s) => Believes(cmode, stream, Len(stream) + 1, s)
    BY <2>1 DEF Believes
  <2>3. Behind'
    BY <1>1, <1>2, <2>2 DEF HiddenInv, Behind
  <2>4. DOMAIN stream' = {}
    BY <2>1
  <2> QED
    BY <1>4, <2>1, <2>3, <2>4 DEF HiddenInv, HeldBack, Hidden
<1>6. CASE ClientConnects
  <2> DEFINE m == [type |-> "ready"]
  <2>1. connected' = TRUE /\ stream' = <<m>> /\ UNCHANGED mode
    BY <1>6 DEF ClientConnects, policy
  <2>2. m.type = "ready"
    OBVIOUS
  <2> HIDE DEF m
  <2>3. DOMAIN stream' = {1} /\ stream'[1] = m
    BY <2>1
  <2>4. Behind'
    BY <1>1, <2>1, <2>2, <2>3 DEF HiddenInv, Behind, Believes
  <2>5. HeldBack'
    BY <2>2, <2>3 DEF HeldBack, AskedAt
  <2>6. Hidden'
    BY <2>2, <2>3 DEF Hidden, Expected
  <2> QED
    BY <1>4, <2>1, <2>2, <2>3, <2>4, <2>5, <2>6 DEF HiddenInv
<1>7. CASE UpstreamConnects
  <2> DEFINE m == [type |-> "ready"]
  <2>1. /\ Post(<<m>>) /\ UNCHANGED <<mode, work, state>> /\ UNCHANGED client
    BY <1>7 DEF UpstreamConnects, policy, openCode
  <2>2. m \in Messages /\ m.type = "ready"
    BY DEF Messages
  <2>3. \A r \in Open' : (Bound(r) => Bound(r)') /\ (Sure(r) => work'[r] # Idle)
    BY <2>1 DEF Bound, Sure, AutoAnswering
  <2> HIDE DEF m
  <2> QED
    BY <2>1, <2>2, <2>3, ServedHidden
<1> QED
  BY <1>5, <1>6, <1>7

LEMMA HiddenInvStep ==
  ASSUME TypeInv, HiddenInv, Next, NobodyTurnedOff
  PROVE  HiddenInv'
<1>1. ASSUME NEW q \in Requests, Processing(q) \/ AttemptFails(q) \/ ResponseLost(q)
      PROVE  HiddenInv'
  BY <1>1, ProcessingHidden
<1>2. ASSUME NEW q \in Requests, Ask(q) PROVE HiddenInv'
  BY <1>2, AskHidden
<1>3. CASE Receive
  BY <1>3, ReceiveHidden
<1>4. CASE Disconnect \/ ClientConnects \/ UpstreamConnects \/ Restart
  BY <1>4, ConnectionsHidden
<1>5. CASE StaleStatus \/ ReadAnswered \/ ReadFails \/ ReadApplied
  BY <1>5, ReadHidden
<1>6. \A r \in Open' : r \in Requests
  BY DEF Open
\* The client is sent nothing.
<1>7. ASSUME UNCHANGED client, UNCHANGED <<state, stream>>, upstream' => upstream,
             \A r \in Requests : work'[r] = work[r] \/ (work'[r] # Idle /\ work'[r].phase # "looking")
      PROVE  HiddenInv'
  <2>1. \A r \in Open' : (Bound(r) => Bound(r)') /\ (Sure(r) => work'[r] # Idle)
    BY <1>6, <1>7, BoundKept DEF Sure
  <2> QED
    BY <1>7, <2>1, ServedHidden
<1>8. ASSUME NEW q \in Requests, UserReplies(q) PROVE HiddenInv'
  <2> DEFINE m == [type |-> "replied", request |-> q]
  <2>1. /\ UNCHANGED <<mode, work, upstream>> /\ UNCHANGED client
        /\ state' = [state EXCEPT ![q] = "user"] /\ (Post(<<m>>) \/ UNCHANGED stream)
    BY <1>8 DEF UserReplies, Answer, About, policy, pending
  <2>2. /\ \A r \in Requests : state'[r] = "open" => state[r] = "open"
        /\ state'[q] # "open"
    BY <2>1 DEF TypeInv, TypeOK
  <2>3. \A r \in Open' : (Bound(r) => Bound(r)') /\ (Sure(r) => work'[r] # Idle)
    BY <1>6, <2>1, BoundKept DEF Sure
  <2>4. m \in Messages /\ m.type = "replied" /\ m.request = q
    BY DEF Messages
  <2> HIDE DEF m
  <2> QED
    BY <2>1, <2>2, <2>3, <2>4, ServedHidden
<1>9. CASE WriteEnds
  <2> DEFINE m == [type |-> "updated", modes |-> mode']
  <2>1. /\ UNCHANGED <<state, upstream>> /\ UNCHANGED client /\ Post(<<m>>)
        /\ work' = [r \in Requests |-> WaitsLess(work[r])]
    BY <1>9 DEF WriteEnds, openCode
  <2>2. m \in Messages /\ m.type = "updated" /\ m.modes = mode'
    <3>1. Head(writes) \in Update
      BY <1>9 DEF WriteEnds, TypeInv, TypeOK
    <3>2. mode' \in Policies
      BY <1>9, <3>1, UpdatedType DEF WriteEnds, TypeInv, TypeOK
    <3> QED
      BY <3>2 DEF Messages
  <2> HIDE DEF m
  <2>3. \A r \in Requests : work'[r] = work[r] \/ (work'[r] # Idle /\ work'[r].phase # "looking")
    <3> SUFFICES ASSUME NEW r \in Requests, Waits(work[r])
                 PROVE  work'[r] # Idle /\ work'[r].phase # "looking"
      BY <2>1 DEF WaitsLess
    <3>1. work[r] \in Resolving /\ work'[r] = [work[r] EXCEPT !.waits = @ - 1]
      BY <2>1, WorkPhases DEF Waits, WaitsLess, TypeInv, TypeOK, Work
    <3>2. work'[r].phase = "resolving"
      BY <3>1 DEF Resolving
    <3> QED
      BY <3>2 DEF Idle
  <2>4. \A r \in Open' : (Bound(r) => Bound(r)') /\ (Sure(r) => work'[r] # Idle)
    BY <1>6, <2>3, BoundKept DEF Sure
  <2> QED
    BY <2>1, <2>2, <2>4, ServedHidden
<1>10. ASSUME NEW k \in Keys, Listed(k) PROVE HiddenInv'
  <2>1. /\ UNCHANGED client /\ UNCHANGED <<state, stream, upstream>>
        /\ work' = Working(Open)
    BY <1>10 DEF Listed, openCode
  <2>2. \A r \in Requests : work'[r] = work[r] \/ (work'[r] # Idle /\ work'[r].phase # "looking")
    BY <2>1 DEF Working, Begun, Idle
  <2> QED
    BY <1>7, <2>1, <2>2
<1>11. ASSUME NEW s \in Sessions, Create(s) \/ DefaultRead(s) \/ \E m \in Modes : UserSets(s, m)
       PROVE  HiddenInv'
  BY <1>7, <1>11 DEF Create, DefaultRead, UserSets, openCode, pending
<1>12. CASE WriteFails \/ UpstreamBreaks \/ \E k \in Keys : ListFails(k)
  BY <1>7, <1>12 DEF WriteFails, UpstreamBreaks, ListFails, openCode, pending
<1> QED
  BY <1>1, <1>2, <1>3, <1>4, <1>8, <1>9, <1>10, <1>11, <1>12, <1>5 DEF Next

\* What nobody answers any more is on the screen, whatever messages, lookups and
\* connections are lost, but for what a re-read that was skipped, dropped, failed
\* or stale has overlooked: as long as no session has an answering mode taken away.
THEOREM NoHiddenRequestCorrect == Spec /\ [][NobodyTurnedOff]_vars => []NoHiddenRequest
<1>1. Init => HiddenInv
  BY DEF Init, HiddenInv, Behind, HeldBack, HeldBound, Hidden, Believes, Answers, Open
<1>2. TypeInv /\ HiddenInv /\ [Next]_vars /\ [NobodyTurnedOff]_vars => HiddenInv'
  <2>1. ASSUME HiddenInv, UNCHANGED vars PROVE HiddenInv'
    BY <2>1 DEF vars, openCode, policy, pending, client, HiddenInv, Behind, HeldBack, HeldBound, Hidden, Open,
       Handled, Expected, ReadAgain, Bound, AutoAnswering
  <2>2. ASSUME TypeInv, HiddenInv, Next, NobodyTurnedOff PROVE HiddenInv'
    BY <2>2, HiddenInvStep
  <2> QED
    BY <2>1, <2>2
<1>3. HiddenInv => NoHiddenRequest
  <2> SUFFICES ASSUME HiddenInv, Settled, NEW r \in Open, r \notin shown PROVE r \in overlooked
    BY DEF NoHiddenRequest
  <2>1. stream = <<>> /\ connected /\ upstream /\ work[r] = Idle /\ resync = NotRead
    BY DEF Settled, Open
  <2>2. DOMAIN stream = {}
    BY <2>1
  <2> QED
    BY <2>1, <2>2 DEF HiddenInv, Hidden, Expected, ReadAgain, LeftAfter, NotRead, ToBeRead
<1> QED
  BY <1>1, <1>2, <1>3, TypeInvCorrect, PTL DEF Spec
=============================================================================
