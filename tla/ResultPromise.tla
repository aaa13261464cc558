---------------------------- MODULE ResultPromise ----------------------------
(***************************************************************************)
(* What dispatch-results promises an agent that dispatched a session with  *)
(* returnResult: a result announced as pending is answered once, whenever  *)
(* the dispatched turn ends, unless there is nobody left to answer, too    *)
(* many younger results are pending, or its record comes too late.         *)
(***************************************************************************)
EXTENDS Naturals

CONSTANT Dispatches

VARIABLES
  promised,  \* dispatches whose caller was told that a result will come
  answers,   \* how often the result of each dispatch was admitted
  excused    \* dispatches that need no answer any more

vars == <<promised, answers, excused>>

Init ==
  /\ promised = {}
  /\ answers = [d \in Dispatches |-> 0]
  /\ excused = {}

Promise(d) ==
  /\ promised' = promised \cup {d}
  /\ UNCHANGED <<answers, excused>>

Answer(d) ==
  /\ answers[d] = 0
  /\ answers' = [answers EXCEPT ![d] = 1]
  /\ UNCHANGED <<promised, excused>>

\* A parent is deleted, an older result gives way, or the server looks no longer.
Excuse(ds) ==
  /\ excused' = excused \cup ds
  /\ UNCHANGED <<promised, answers>>

Next ==
  \/ \E d \in Dispatches : Promise(d) \/ Answer(d)
  \/ \E ds \in SUBSET Dispatches : Excuse(ds)

Open(d) == d \in promised /\ answers[d] = 0 /\ d \notin excused

Spec ==
  /\ Init /\ [][Next]_vars
  /\ \A d \in Dispatches : WF_vars(Open(d) /\ (Answer(d) \/ Excuse({d})))
=============================================================================
