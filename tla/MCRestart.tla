------------------------------- MODULE MCRestart -------------------------------
(* A node that is closed, killed and started again while two forks compete *)
(* and a chain of six blocks grows past the undo point of reindex, which   *)
(* MaxUndoHistory = 4 brings within reach.                                 *)
EXTENDS ChainProperties

MCprevious ==
    [r1 |-> Null, r2 |-> "r1", a3 |-> "r2", a4 |-> "a3",
     b3 |-> "r2", b4 |-> "b3", b5 |-> "b4", b6 |-> "b5", x5 |-> "b4"]

MCBlock == DOMAIN MCprevious

MCnum ==
    [r1 |-> 1, r2 |-> 2, a3 |-> 3, a4 |-> 4,
     b3 |-> 3, b4 |-> 4, b5 |-> 5, b6 |-> 6, x5 |-> 5]

MCwitness ==
    [b \in MCBlock |-> IF b \in {"r2", "a3", "a4", "b6"} THEN "w2" ELSE "w1"]

MCtransactions ==
    [b \in MCBlock |-> IF b = "a3" THEN <<"t1">> ELSE <<>>]

MCNone == [t1 |-> {}]
=============================================================================
