------------------------------- MODULE MCDamage -------------------------------
(* One chain of six blocks, one of which becomes unreadable while the node *)
(* is down.  With MaxUndoHistory = 3 the undo point of a full replay is 3. *)
EXTENDS ChainProperties

MCBlock == 1..6
MCprevious == [b \in MCBlock |-> b - 1]
MCnum == [b \in MCBlock |-> b]
MCwitness == [b \in MCBlock |-> b % 2]
MCtransactions == [b \in MCBlock |-> <<>>]
MCNone == [t \in {} |-> {}]
=============================================================================
