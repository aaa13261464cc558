------------------------ MODULE MCPermissionAutoAccept ------------------------
(* A session and its subagent, which asks for permissions. *)
EXTENDS PermissionAutoAccept

CONSTANTS root, child

Family == [s \in {root, child} |-> IF s = root THEN <<root>> ELSE <<child, root>>]
Asker == [r \in Requests |-> child]
=============================================================================
