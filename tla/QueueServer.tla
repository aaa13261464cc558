----------------------------- MODULE QueueServer -----------------------------
(***************************************************************************)
(* What the server promises of its message queues, whatever happens inside *)
(* the runtime: every change of a queue is a new revision, an item is in   *)
(* flight only from its queue and one at a time per session, and the end   *)
(* of a send leaves the queue alone or takes that one item out of it.      *)
(* MessageQueue implements it; clients build on it.                        *)
(***************************************************************************)
EXTENDS Naturals

CONSTANTS Sessions, Items, NoItem

VARIABLES queues, revision, sending

serverVars == <<queues, revision, sending>>

Init ==
  /\ queues \in [Sessions -> SUBSET Items]
  /\ revision \in Nat
  /\ sending = [s \in Sessions |-> NoItem]

\* An edit by a client, the scheduler or a deleted session.
Mutate ==
  /\ queues' \in [Sessions -> SUBSET Items]
  /\ revision' \in Nat /\ revision' > revision
  /\ UNCHANGED sending

Claim(s, i) ==
  /\ i \in queues[s]
  /\ sending[s] = NoItem
  /\ sending' = [sending EXCEPT ![s] = i]
  /\ UNCHANGED <<queues, revision>>

\* The send failed and the item waits for its retry.
Release(s) ==
  /\ sending[s] # NoItem
  /\ sending' = [sending EXCEPT ![s] = NoItem]
  /\ UNCHANGED <<queues, revision>>

\* The item was sent, or refused for good.
Settle(s) ==
  /\ sending[s] # NoItem
  /\ queues' = [queues EXCEPT ![s] = @ \ {sending[s]}]
  /\ revision' \in Nat /\ revision' > revision
  /\ sending' = [sending EXCEPT ![s] = NoItem]

Next ==
  \/ Mutate
  \/ \E s \in Sessions : Release(s) \/ Settle(s) \/ \E i \in Items : Claim(s, i)

Spec == Init /\ [][Next]_serverVars
=============================================================================
