------------------------- MODULE MCCustomAnimation --------------------------
(* Two ids, transfers of one to three chunks of one or two bytes, a buffer *)
(* that two large chunks overflow, a malformed chunk of each shape, and a  *)
(* queue with room for two more commands.                                  *)
EXTENDS CustomAnimation

MCMalformed == {[id |-> 0, index |-> i, count |-> i, size |-> 1, of |-> 1] : i \in {0, 2}}
=============================================================================
