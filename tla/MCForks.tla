------------------------------- MODULE MCForks -------------------------------
(* Two forks that compete from block 3 on, each of which gets one block    *)
(* ahead of the other in turn, a third continuation that is invalid, and   *)
(* transactions that depend on, or exclude, each other across the forks.   *)
EXTENDS ChainProperties

MCprevious ==
    [r1 |-> Null, r2 |-> "r1",
     a3 |-> "r2", a4 |-> "a3", a5 |-> "a4", o4 |-> "a3",
     b3 |-> "r2", b4 |-> "b3", b5 |-> "b4", x5 |-> "b4", l5 |-> "a4", m4 |-> "b3"]

MCBlock == DOMAIN MCprevious

MCnum ==
    [r1 |-> 1, r2 |-> 2, a3 |-> 3, a4 |-> 4, a5 |-> 5, o4 |-> 4,
     b3 |-> 3, b4 |-> 4, b5 |-> 5, x5 |-> 5, l5 |-> 5, m4 |-> 4]

MCwitness ==
    [b \in MCBlock |-> IF b \in {"r1", "a3", "b4", "a5", "x5", "m4"} THEN "w1" ELSE "w2"]

(* The forks carry the same transaction at different heights, one that     *)
(* needs it, and one that excludes it.                                     *)
MCtransactions ==
    [b \in MCBlock |->
        CASE b = "a3" -> <<"t1">> [] b = "a4" -> <<"t2">> [] b = "o4" -> <<"t2">>
          [] b = "b3" -> <<"t3">> [] OTHER -> <<>>]

MCRequires == [t1 |-> {}, t2 |-> {"t1"}, t3 |-> {}]
MCExcludes == [t1 |-> {}, t2 |-> {}, t3 |-> {"t2"}]
=============================================================================
