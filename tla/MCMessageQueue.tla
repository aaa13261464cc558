--------------------------- MODULE MCMessageQueue ---------------------------
(***************************************************************************)
(* Values for the constants of MessageQueue that a .cfg cannot write down, *)
(* and the symmetry of the ticks, and of the sessions.                     *)
(***************************************************************************)
EXTENDS MessageQueue, TLC

\* A server that starts with no queue file, and one that also may restore a
\* message per session.
NothingStored == {[s \in Sessions |-> {}]}
OneStored == NothingStored \cup {[s \in Sessions |-> IF s = r THEN {1} ELSE {}] : r \in Sessions}

TickSymmetry == Permutations(Ticks)
SessionSymmetry == Permutations(Sessions)
=============================================================================
